---- MODULE Spec2Model ----
(***************************************************************************)
(* Model of the image generation route of Nano-Thumbnail,                  *)
(* src/app/api/image/route.ts: the POST handler (lines 409-576), the       *)
(* helpers it calls (schema validation, aspectRatioConfig, base64ToPart,   *)
(* getLocalReferenceImagePart, handleApiResponse) and the status mapping   *)
(* of its catch block.  Strings are TLA+ strings and String.includes is a  *)
(* real substring search, so the substring based classification of the     *)
(* handler is computed as the code computes it.                            *)
(***************************************************************************)
EXTENDS Integers, Sequences, FiniteSets, TLC

VARIABLES
    env,        \* process.env: the API key the process was started with
    pc,         \* pc[r]: where the handler of slot r stands
    httpBody,   \* httpBody[r]: the body of the HTTP request being handled
    requestBody,\* requestBody[r]: the handler's local `requestBody`
    pending,    \* pending[r]: the provider call the handler awaits, if any
    log,        \* log[r]: what this execution did, in order (history)
    requestId,  \* requestId[r]: the handler's local `requestId`
    probe,      \* the answer to the last GET, if there was one
    guard,      \* AuthProvider and the ProtectedRoute mounted under it
    chat,       \* the Chat component and the template store it reads
    login,      \* the login page
    hook        \* the useImageGeneration hook

\* The browser side of the application.
client == <<guard, chat, login, hook>>

vars == <<env, pc, httpBody, requestBody, pending, log, requestId, probe,
          client>>

-----------------------------------------------------------------------------
(* Optional values: undefined / null is <<>>, a present value v is <<v>>.  *)

None == <<>>
Some(v) == <<v>>
IsSome(m) == m # <<>>
Get(m) == m[1]

-----------------------------------------------------------------------------
(* JavaScript strings.                                                     *)

\* String.prototype.includes
Includes(s, k) ==
    \E i \in 1..(Len(s) - Len(k) + 1) : SubSeq(s, i, i + Len(k) - 1) = k

\* String.prototype.startsWith
StartsWith(s, k) == Len(s) >= Len(k) /\ SubSeq(s, 1, Len(k)) = k

\* String.prototype.indexOf from position `from` (1-based; 0 when absent)
IndexFrom(s, k, from) ==
    LET hits == {i \in from..(Len(s) - Len(k) + 1) : SubSeq(s, i, i + Len(k) - 1) = k}
    IN  IF hits = {} THEN 0 ELSE CHOOSE i \in hits : \A j \in hits : i <= j

\* F applied to the value of v, which is computed once
With(v, F(_)) == CHOOSE y \in {F(x) : x \in {v}} : TRUE

IsSpace(c) == c \in {" ", "\t", "\n", "\r"}

\* String.prototype.trim
TrimValue(s) ==
    IF \A i \in 1..Len(s) : IsSpace(SubSeq(s, i, i)) THEN ""
    ELSE SubSeq(s,
            CHOOSE i \in 1..Len(s) :
                ~IsSpace(SubSeq(s, i, i)) /\ \A j \in 1..(i - 1) : IsSpace(SubSeq(s, j, j)),
            CHOOSE i \in 1..Len(s) :
                ~IsSpace(SubSeq(s, i, i)) /\ \A j \in (i + 1)..Len(s) : IsSpace(SubSeq(s, j, j)))
Trim(s) == With(s, LAMBDA v : TrimValue(v))

\* a string of n copies of s
RECURSIVE Repeat(_, _)
Repeat(s, n) ==
    IF n = 0 THEN ""
    ELSE IF n % 2 = 1 THEN s \o Repeat(s, n - 1)
    ELSE Repeat(s \o s, n \div 2)

\* Array.prototype.join(', ')
RECURSIVE Join(_)
Join(ss) ==
    IF Len(ss) = 0 THEN ""
    ELSE IF Len(ss) = 1 THEN ss[1]
    ELSE ss[1] \o ", " \o Join(Tail(ss))

-----------------------------------------------------------------------------
(* JSON numbers.  A number is hi * 2^16 + lo (+ 1/2 when half), so that    *)
(* values beyond the 32 bit bound of the schema can be written down.       *)

Radix == 2 ^ 16

Num(n) == [hi |-> n \div Radix, lo |-> n % Radix, half |-> FALSE]
NumPlusHalf(n) == [hi |-> n \div Radix, lo |-> n % Radix, half |-> TRUE]
NumSucc(x) ==
    IF x.lo = Radix - 1 THEN [hi |-> x.hi + 1, lo |-> 0, half |-> x.half]
    ELSE [hi |-> x.hi, lo |-> x.lo + 1, half |-> x.half]

NumIsInt(x) == ~x.half
\* x >= n and x <= n, for an integer n
NumGeq(x, n) ==
    \/ x.hi > n \div Radix
    \/ x.hi = n \div Radix /\ x.lo >= n % Radix
NumLeq(x, n) ==
    \/ x.hi < n \div Radix
    \/ x.hi = n \div Radix /\ x.lo < n % Radix
    \/ x.hi = n \div Radix /\ x.lo = n % Radix /\ ~x.half
\* JavaScript truthiness of a number: everything but 0
NumTruthy(x) == ~(x.hi = 0 /\ x.lo = 0 /\ ~x.half)

-----------------------------------------------------------------------------
(* ImageGenerationSchema (zod).                                            *)

MinPromptLen == 1
MaxPromptLen == 1000
MinSeed == 0
MaxSeed == 2147483647

AspectRatios == {"16:9", "9:16", "4:3", "3:4", "1:1"}

\* The parsed JSON object of a request: every field may be absent.
JsonObject(prompt, aspectRatio, seed, userImage, cacheEnabled) ==
    [prompt |-> prompt, aspectRatio |-> aspectRatio, seed |-> seed,
     userImage |-> userImage, cacheEnabled |-> cacheEnabled]

\* `let requestBody: any = {}`
EmptyObject == JsonObject(None, None, None, None, None)

\* Faulty variant: the upper bound of the prompt is exclusive.
PromptIssues_Exclusive(prompt) ==
    IF ~IsSome(prompt) THEN <<"Required">>
    ELSE IF Len(Get(prompt)) < MinPromptLen THEN <<"Prompt is required">>
    ELSE IF Len(Get(prompt)) >= MaxPromptLen THEN <<"Prompt too long">>
    ELSE <<>>

PromptIssues(prompt) ==
    IF ~IsSome(prompt) THEN <<"Required">>
    ELSE IF Len(Get(prompt)) < MinPromptLen THEN <<"Prompt is required">>
    ELSE IF Len(Get(prompt)) > MaxPromptLen THEN <<"Prompt too long">>
    ELSE <<>>

AspectRatioIssues(aspectRatio) ==
    IF ~IsSome(aspectRatio) THEN <<"Required">>
    ELSE IF Get(aspectRatio) \notin AspectRatios
         THEN <<"Invalid enum value. Expected '16:9' | '9:16' | '4:3' | '3:4' | '1:1', received '"
                 \o Get(aspectRatio) \o "'">>
    ELSE <<>>

SeedIssues(seed) ==
    IF ~IsSome(seed) THEN <<>>
    ELSE (IF ~NumIsInt(Get(seed)) THEN <<"Expected integer, received float">> ELSE <<>>)
      \o (IF ~NumGeq(Get(seed), MinSeed)
          THEN <<"Number must be greater than or equal to 0">> ELSE <<>>)
      \o (IF ~NumLeq(Get(seed), MaxSeed)
          THEN <<"Number must be less than or equal to 2147483647">> ELSE <<>>)

\* ImageGenerationSchema.safeParse(requestBody).error.issues, as messages
SchemaIssues(json) ==
    PromptIssues(json.prompt) \o AspectRatioIssues(json.aspectRatio)
        \o SeedIssues(json.seed)

-----------------------------------------------------------------------------
(* aspectRatioConfig.                                                      *)

aspectRatioConfig ==
    [r \in AspectRatios |->
        CASE r = "16:9" -> [width |-> 1920, height |-> 1080, filename |-> "16-9.png",
                            platform |-> "YouTube"]
          [] r = "9:16" -> [width |-> 1080, height |-> 1920, filename |-> "9-16.png",
                            platform |-> "Instagram/TikTok"]
          [] r = "4:3"  -> [width |-> 1024, height |-> 768, filename |-> "4-3.png",
                            platform |-> "General"]
          [] r = "3:4"  -> [width |-> 768, height |-> 1024, filename |-> "3-4.png",
                            platform |-> "General"]
          [] r = "1:1"  -> [width |-> 1024, height |-> 1024, filename |-> "1-1.png",
                            platform |-> "Instagram Post"]]

\* Object.entries(aspectRatioConfig): the keys in the order they are written
ConfigKeys == <<"16:9", "9:16", "4:3", "3:4", "1:1">>

\* the description of each entry
ConfigDescription(r) ==
    CASE r = "16:9" -> "YouTube thumbnail format - Horizontal landscape"
      [] r = "9:16" -> "Instagram Reels/Stories format - Vertical portrait"
      [] r = "4:3"  -> "Traditional display format - Horizontal"
      [] r = "3:4"  -> "Portrait format - Vertical"
      [] r = "1:1"  -> "Square format - Equal dimensions"

-----------------------------------------------------------------------------
(* GET: the health and capability probe.                                   *)

\* `${n}` of a non-negative integer: its decimal digits
Digit(d) == SubSeq("0123456789", d + 1, d + 1)

RECURSIVE NumberToString(_)
NumberToString(n) ==
    IF n < 10 THEN Digit(n) ELSE NumberToString(n \div 10) \o Digit(n % 10)

\* Faulty variant: height and width are written the other way round.
Dimensions_Swapped(config) ==
    NumberToString(config.height) \o "x" \o NumberToString(config.width)

\* `${config.width}x${config.height}`
Dimensions(config) ==
    NumberToString(config.width) \o "x" \o NumberToString(config.height)

\* lines 580-599: the body GET answers with
HealthResponse ==
    [status |-> "healthy",
     service |-> "nano-image-generator",
     model |-> "gemini-2.5-flash-image-preview",
     supportedFormats |-> <<"jpeg", "png">>,
     supportedAspectRatios |->
        [i \in 1..Len(ConfigKeys) |->
            [aspectRatio |-> ConfigKeys[i],
             dimensions |-> Dimensions(aspectRatioConfig[ConfigKeys[i]]),
             platform |-> aspectRatioConfig[ConfigKeys[i]].platform,
             description |-> ConfigDescription(ConfigKeys[i])]],
     capabilities |-> <<"text-to-image", "image-to-image", "seed-control",
                        "aspect-ratio-control", "platform-optimized-generation">>]

-----------------------------------------------------------------------------
(* base64ToPart and getLocalReferenceImagePart.                            *)

InlinePart(mimeType, data) ==
    [inlineData |-> Some([mimeType |-> mimeType, data |-> data]), text |-> None]
TextPart(text) == [inlineData |-> None, text |-> Some(text)]

\* base64Data.split(',')[1]: what stands between the first and the second comma
AfterFirstComma(s) ==
    LET c1 == IndexFrom(s, ",", 1)
        c2 == IndexFrom(s, ",", c1 + 1)
    IN  SubSeq(s, c1 + 1, IF c2 = 0 THEN Len(s) ELSE c2 - 1)

\* base64Data.match(/data:([^;]+);/): the first "data:" that is followed by at
\* least one character other than ';' and then a ';'; group 1, or None
MimeMatch(s) ==
    LET starts == {i \in 1..(Len(s) - 5) :
                      /\ SubSeq(s, i, i + 4) = "data:"
                      /\ SubSeq(s, i + 5, i + 5) # ";"
                      /\ IndexFrom(s, ";", i + 5) # 0}
    IN  IF starts = {} THEN None
        ELSE LET i == CHOOSE a \in starts : \A b \in starts : a <= b
             IN  Some(SubSeq(s, i + 5, IndexFrom(s, ";", i + 5) - 1))

base64ToPart(base64Data, mimeType) ==
    LET base64String == IF Includes(base64Data, ",") THEN AfterFirstComma(base64Data)
                        ELSE base64Data
        finalMimeType == IF StartsWith(base64Data, "data:") /\ IsSome(MimeMatch(base64Data))
                         THEN Get(MimeMatch(base64Data))
                         ELSE mimeType
    IN  InlinePart(finalMimeType, base64String)

\* What the file system answers when public/<filename> is read.
FsOutcomes == {"ok", "missing", "unreadable"}

\* imageBuffer.toString('base64') of the blank image public/<filename>
FileBase64(filename) ==
    "iVBORw0KGgoBLANK" \o SubSeq(filename, 1, 1)
        \o SubSeq(filename, Len(filename) - 4, Len(filename) - 4)

\* getLocalReferenceImagePart: null when the file is missing (existsSync is false)
\* or reading it throws
getLocalReferenceImagePart(filename, fs) ==
    IF fs = "ok" THEN Some(base64ToPart(FileBase64(filename), "image/png"))
    ELSE None

-----------------------------------------------------------------------------
(* The provider's response and handleApiResponse.                          *)

Candidate(parts, finishReason) == [parts |-> parts, finishReason |-> finishReason]

\* GenerateContentResponse: promptFeedback?.blockReason, .blockReasonMessage,
\* candidates (empty when there is none)
ProviderResponse(blockReason, blockReasonMessage, candidates) ==
    [blockReason |-> blockReason, blockReasonMessage |-> blockReasonMessage,
     candidates |-> candidates]

\* a string read as a condition: undefined and '' are falsy
Truthy(m) == IsSome(m) /\ Get(m) # ""
\* m || ''
OrEmpty(m) == IF Truthy(m) THEN Get(m) ELSE ""

\* response.candidates?.[0]?.content?.parts, empty when any link is missing
FirstParts(response) ==
    IF Len(response.candidates) = 0 THEN <<>> ELSE response.candidates[1].parts

\* parts.find(part => part.inlineData)
FindInline(parts) ==
    LET hits == {i \in 1..Len(parts) : IsSome(parts[i].inlineData)}
    IN  IF hits = {} THEN None
        ELSE Some(parts[CHOOSE i \in hits : \A j \in hits : i <= j])

\* response.text: the text parts of the first candidate concatenated, undefined
\* when it has none
RECURSIVE ConcatTexts(_)
ConcatTexts(parts) ==
    IF Len(parts) = 0 THEN ""
    ELSE OrEmpty(parts[1].text) \o ConcatTexts(Tail(parts))

ResponseText(response) ==
    IF \E i \in 1..Len(FirstParts(response)) : IsSome(FirstParts(response)[i].text)
    THEN Some(ConcatTexts(FirstParts(response)))
    ELSE None

Returned(v) == [threw |-> FALSE, value |-> v]
\* throw new Error(message), or a thrown value that is no Error
Thrown(message) == [threw |-> TRUE, isError |-> TRUE, value |-> message]
ThrownValue(v) == [threw |-> TRUE, isError |-> FALSE, value |-> v]

BlockedMessage(response) ==
    "Request was blocked. Reason: " \o Get(response.blockReason) \o ". "
        \o OrEmpty(response.blockReasonMessage)

\* Faulty variant: the MIME type is the default of base64ToPart, not the declared one.
DataUri_DefaultMime(inlineData) == "data:image/jpeg;base64," \o inlineData.data

DataUri(inlineData) == "data:" \o inlineData.mimeType \o ";base64," \o inlineData.data

StoppedMessage(finishReason) ==
    "Image generation stopped unexpectedly. Reason: " \o finishReason
        \o ". This often relates to safety settings or content policy violations."

\* Faulty variant: the text feedback is not looked at.
NoImageMessageFor_NoQuote(textFeedback) ==
    "The AI model did not return an image. " \o
        "This can happen due to safety filters or content policy issues. Please try rephrasing your prompt."

NoImageMessageFor(textFeedback) ==
    "The AI model did not return an image. " \o
        (IF Truthy(textFeedback)
         THEN "The model responded with text: \"" \o Get(textFeedback) \o "\""
         ELSE "This can happen due to safety filters or content policy issues. Please try rephrasing your prompt.")

\* Faulty variant: the text feedback is not trimmed.
NoImageMessage_Untrimmed(response) ==
    With(ResponseText(response), LAMBDA textFeedback : NoImageMessageFor(textFeedback))

\* const textFeedback = response.text?.trim()
NoImageMessage(response) ==
    With(IF IsSome(ResponseText(response))
         THEN Some(Trim(Get(ResponseText(response)))) ELSE None,
         LAMBDA textFeedback : NoImageMessageFor(textFeedback))

\* Faulty variant: the image is looked for before the block reason.
handleApiResponse_ImageFirst(response) ==
    IF IsSome(FindInline(FirstParts(response)))
    THEN Returned(DataUri(Get(Get(FindInline(FirstParts(response))).inlineData)))
    ELSE IF Truthy(response.blockReason) THEN Thrown(BlockedMessage(response))
    ELSE IF Len(response.candidates) > 0
            /\ Truthy(response.candidates[1].finishReason)
            /\ Get(response.candidates[1].finishReason) # "STOP"
    THEN Thrown(StoppedMessage(Get(response.candidates[1].finishReason)))
    ELSE Thrown(NoImageMessage(response))

handleApiResponse(response) ==
    IF Truthy(response.blockReason) THEN Thrown(BlockedMessage(response))
    ELSE IF IsSome(FindInline(FirstParts(response)))
    THEN Returned(DataUri(Get(Get(FindInline(FirstParts(response))).inlineData)))
    ELSE IF Len(response.candidates) > 0
            /\ Truthy(response.candidates[1].finishReason)
            /\ Get(response.candidates[1].finishReason) # "STOP"
    THEN Thrown(StoppedMessage(Get(response.candidates[1].finishReason)))
    ELSE Thrown(NoImageMessage(response))

-----------------------------------------------------------------------------
(* The catch block: message and status.                                    *)

\* error instanceof Error ? error.message : 'Unknown error'
ErrorMessageOf(thrown) == IF thrown.isError THEN thrown.value ELSE "Unknown error"

\* Faulty variant: `let status` starts without the 500, so an unclassified error
\* is answered with the default status of NextResponse.json.
Status1_Default200(m) == IF Includes(m, "quota") \/ Includes(m, "429") THEN 429 ELSE 200

Status1(m) == IF Includes(m, "quota") \/ Includes(m, "429") THEN 429 ELSE 500
\* Faulty variant: 'blocked' is not among the phrases of the second test.
Status2_NoBlocked(m) ==
    IF Includes(m, "safety") \/ Includes(m, "policy") THEN 400 ELSE Status1(m)

Status2(m) ==
    IF Includes(m, "safety") \/ Includes(m, "policy") \/ Includes(m, "blocked")
    THEN 400 ELSE Status1(m)
Status3(m) == IF Includes(m, "model") \/ Includes(m, "not found") THEN 503 ELSE Status2(m)
\* Faulty variant: the timeout test is missing.
Status4_NoTimeout(m) == Status3(m)

Status4(m) == IF Includes(m, "timeout") THEN 504 ELSE Status3(m)
\* `let status = 500` and the five `if (...) status = ...` lines, in order
ErrorStatus(m) ==
    IF Includes(m, "validation") \/ Includes(m, "invalid") THEN 400 ELSE Status4(m)

-----------------------------------------------------------------------------
(* The POST handler's pieces.                                              *)

\* NextResponse.json(body, { status })
JsonResponse(status, success, imageUrl, error, metadata) ==
    [status |-> status, success |-> success, imageUrl |-> imageUrl,
     error |-> error, metadata |-> metadata]

\* lines 422-427: the answer to a body the schema rejects
ValidationResponse(issues) ==
    JsonResponse(400, FALSE, None, Some("Validation error: " \o Join(issues)), None)

\* lines 449-455, 458-465, 513-515: modelParts
TextPromptPart(data) ==
    [inlineData |-> None,
     text |-> Some([width |-> aspectRatioConfig[Get(data.aspectRatio)].width,
                    height |-> aspectRatioConfig[Get(data.aspectRatio)].height,
                    aspectRatio |-> Get(data.aspectRatio),
                    platform |-> aspectRatioConfig[Get(data.aspectRatio)].platform,
                    hasUserImage |-> Truthy(data.userImage),
                    prompt |-> Get(data.prompt)])]

ModelParts(data, referenceImagePart) ==
    (IF IsSome(referenceImagePart) THEN <<Get(referenceImagePart)>> ELSE <<>>)
    \o (IF Truthy(data.userImage)
        THEN <<base64ToPart(Get(data.userImage), "image/jpeg")>> ELSE <<>>)
    \o <<TextPromptPart(data)>>

\* Faulty variant: cacheEnabled is passed on to the provider with the call.
GenerateContentCall_Cached(data, referenceImagePart) ==
    [model |-> "gemini-2.5-flash-image-preview",
     parts |-> ModelParts(data, referenceImagePart),
     generationConfig |-> IF IsSome(data.seed) /\ NumTruthy(Get(data.seed))
                          THEN Some([seed |-> Get(data.seed)]) ELSE None,
     cachedContent |-> data.cacheEnabled]

\* lines 523-527: the argument of ai.models.generateContent
GenerateContentCall(data, referenceImagePart) ==
    [model |-> "gemini-2.5-flash-image-preview",
     parts |-> ModelParts(data, referenceImagePart),
     generationConfig |-> IF IsSome(data.seed) /\ NumTruthy(Get(data.seed))
                          THEN Some([seed |-> Get(data.seed)]) ELSE None]

\* The pixel size of the bytes the provider returned (it does not follow the
\* requested size).
MeasuredSize(imageUrl) ==
    IF Includes(imageUrl, "iVBORw0KGgo") THEN [width |-> 1344, height |-> 768]
    ELSE [width |-> 1024, height |-> 1024]

\* Faulty variant: the reported size is measured from the returned image.
SuccessResponse_Measured(data, imageUrl, id) ==
    JsonResponse(200, TRUE, Some(imageUrl), None,
        Some([prompt |-> Get(data.prompt),
              width |-> Some(MeasuredSize(imageUrl).width),
              height |-> Some(MeasuredSize(imageUrl).height),
              aspectRatio |-> Get(data.aspectRatio),
              platform |-> aspectRatioConfig[Get(data.aspectRatio)].platform,
              seed |-> data.seed,
              requestId |-> id]))

\* lines 534-547: the success response
SuccessResponse(data, imageUrl, id) ==
    JsonResponse(200, TRUE, Some(imageUrl), None,
        Some([prompt |-> Get(data.prompt),
              width |-> Some(aspectRatioConfig[Get(data.aspectRatio)].width),
              height |-> Some(aspectRatioConfig[Get(data.aspectRatio)].height),
              aspectRatio |-> Get(data.aspectRatio),
              platform |-> aspectRatioConfig[Get(data.aspectRatio)].platform,
              seed |-> data.seed,
              requestId |-> id]))

\* lines 562-574: the failure response of the catch block
CatchResponse(thrown, body, id) ==
    LET known == Truthy(body.aspectRatio) /\ Get(body.aspectRatio) \in AspectRatios
    IN  JsonResponse(ErrorStatus(ErrorMessageOf(thrown)), FALSE, None,
            Some("Failed to generate image: " \o ErrorMessageOf(thrown)),
            Some([prompt |-> OrEmpty(body.prompt),
                  width |-> IF known THEN Some(aspectRatioConfig[Get(body.aspectRatio)].width)
                            ELSE None,
                  height |-> IF known THEN Some(aspectRatioConfig[Get(body.aspectRatio)].height)
                             ELSE None,
                  aspectRatio |-> OrEmpty(body.aspectRatio),
                  platform |-> IF known THEN aspectRatioConfig[Get(body.aspectRatio)].platform
                               ELSE "",
                  seed |-> None,
                  requestId |-> id]))

\* line 416
ApiKeyError == Thrown("Google Generative AI API key not configured")

-----------------------------------------------------------------------------
(* What the environment can send: request bodies, provider answers.        *)

MaxParts == 2

LongPrompt == Repeat("thumbnail ", 100)

Prompts == {None, Some(""), Some("a"), Some("a cat astronaut"), Some(LongPrompt),
            Some(LongPrompt \o "!")}
RequestedRatios == {Some(a) : a \in AspectRatios} \cup {None, Some("2:1")}
Seeds == {None, Some(Num(-1)), Some(Num(0)), Some(Num(42)), Some(Num(MaxSeed)),
          Some(NumSucc(Num(MaxSeed))), Some(NumPlusHalf(1))}
UserImages == {None, Some(""), Some("data:image/png;base64,dXNlcg=="), Some("dXNlcg==")}

\* request.json() rejects with a SyntaxError
JsonParseErrors == {"Unexpected end of JSON input"}

\* cacheEnabled: z.boolean().default(true)
CacheFlags == {None, Some(TRUE), Some(FALSE)}

ParsedBody(json) == [parses |-> TRUE, json |-> json, error |-> ""]
UnparsedBody(e) == [parses |-> FALSE, json |-> EmptyObject, error |-> e]

HttpBodies ==
    {ParsedBody(JsonObject(p, a, s, u, None)) :
        p \in Prompts, a \in RequestedRatios, s \in Seeds, u \in UserImages}
    \cup {ParsedBody(JsonObject(Some("a cat astronaut"), Some(a), s, None, c)) :
            a \in AspectRatios, s \in {None, Some(Num(42))}, c \in CacheFlags}
    \cup {UnparsedBody(e) : e \in JsonParseErrors}

ApiKeys == {None, Some(""), Some("AIza-key")}

PngPart == InlinePart("image/png", "iVBORw0KGgoAAAANSUhEUg")
JpegPart == InlinePart("image/jpeg", "/9j/4AAQSkZJRg")
ResponsePartKinds == {PngPart, JpegPart, TextPart(" I cannot create that image. "),
                      TextPart("  ")}

RECURSIVE SeqsUpTo(_, _)
SeqsUpTo(S, n) ==
    IF n = 0 THEN {<<>>}
    ELSE SeqsUpTo(S, n - 1)
         \cup {Append(q, x) : q \in {p \in SeqsUpTo(S, n - 1) : Len(p) = n - 1}, x \in S}

FinishReasons == {None, Some("STOP"), Some("SAFETY")}
BlockReasons == {Some("SAFETY"), Some("OTHER")}
BlockReasonMessages == {None, Some(""), Some("The prompt is not allowed."),
                        Some("Rejected by the model's safety system.")}

CandidateLists ==
    {<<>>} \cup {<<Candidate(ps, f)>> : ps \in SeqsUpTo(ResponsePartKinds, MaxParts),
                                        f \in FinishReasons}

ProviderResponses ==
    {ProviderResponse(None, None, cs) : cs \in CandidateLists}
    \cup {ProviderResponse(Some(""), None, <<Candidate(<<PngPart>>, Some("STOP"))>>)}
    \cup {ProviderResponse(b, m, cs) :
            b \in BlockReasons, m \in BlockReasonMessages,
            cs \in {<<>>, <<Candidate(<<PngPart>>, Some("STOP"))>>}}

\* what ai.models.generateContent rejects with
ProviderErrors ==
    {Thrown(m) : m \in {"fetch failed",
                        "got status: 429 Too Many Requests. You exceeded your current quota.",
                        "The model is overloaded. Please try again later.",
                        "Request timeout",
                        "Response was blocked due to safety",
                        "got status: 429 Too Many Requests. You exceeded your current quota for model gemini-2.5-flash-image-preview.",
                        "The operation was aborted due to timeout",
                        "The request to the model failed: timeout"}}
    \cup {ThrownValue("ECONNRESET")}

-----------------------------------------------------------------------------
(* The handler as a state machine.  One slot is one execution of POST at a *)
(* time; its two awaits (request.json() and generateContent) are the only  *)
(* places where it is suspended.                                           *)

Slots == {"h1", "h2"}
\* the slot that runs when requests come one at a time
Serial == {"h1"}

\* what crypto.randomUUID() can return
Uuids == {"3b241101-e2bb-4255-8caf-4136c566a962", "9c5b94b1-35ad-49bb-b118-8e8fc24abf80"}
SerialUuids == {"3b241101-e2bb-4255-8caf-4136c566a962"}

Event(ev, data) == [ev |-> ev, data |-> data]
EventsOf(r, ev) == SelectSeq(log[r], LAMBDA e : e.ev = ev)

\* NextResponse.json(...) is returned: the execution is over
Respond(r, response) ==
    /\ pc' = [pc EXCEPT ![r] = "done"]
    /\ log' = [log EXCEPT ![r] = Append(@, Event("response", response))]
    /\ pending' = [pending EXCEPT ![r] = None]

\* AuthProvider before Firebase has reported anything, and a ProtectedRoute
\* that is not mounted yet: `{!loading && children}` renders nothing.
GuardStart(require) ==
    [loading |-> TRUE, currentUser |-> None, isChecking |-> TRUE,
     requireEmailVerification |-> require, effect |-> FALSE,
     view |-> "nothing", pushed |-> None, signingOut |-> FALSE,
     path |-> "/dashboard"]

\* A message of the chat.  `handled` is history: for a user message, the
\* call its submit made.
Message(id, role, content, userImages, images, error, templateUsed, handled) ==
    [id |-> id, role |-> role, content |-> content, userImages |-> userImages,
     images |-> images, error |-> error, templateUsed |-> templateUsed,
     handled |-> handled]

AssistantMessage(id, content, images, error, templateUsed) ==
    Message(id, "assistant", content, <<>>, images, error, templateUsed, None)

\* The greeting the chat starts with.
Greeting ==
    AssistantMessage(1, "Hello! I'm Nano Thumbnail with advanced image generation capabilities.",
                     <<>>, None, None)

\* The templates page is open; the Chat component has its initial state.
ChatStart ==
    [page |-> "templates", store |-> {}, selectedTemplate |-> None,
     savedTemplates |-> {}, currentTemplate |-> None,
     imageGenOptions |-> [aspectRatio |-> "1:1", cacheEnabled |-> TRUE],
     messages |-> <<Greeting>>, input |-> "", uploadedImages |-> <<>>,
     isLoading |-> FALSE, op |-> None]

\* The login page as it is first rendered; errors is the object of the
\* messages shown, a missing key being <<>>.
NoErrors == [email |-> None, password |-> None, general |-> None]

LoginStart ==
    [formData |-> [email |-> "", password |-> ""], errors |-> NoErrors,
     loading |-> FALSE, op |-> None, path |-> "/login"]

\* The hook as first rendered: no call of generateImage is in flight.
MaxCalls == 2

CallIds == 1..MaxCalls

HookStart ==
    [loading |-> FALSE, error |-> None, generatedImage |-> None,
     calls |-> [c \in CallIds |-> [at |-> "none", params |-> "", response |-> None]]]

\* The browser side before any component has been used.
ClientIdle ==
    /\ guard = GuardStart(TRUE)
    /\ chat = ChatStart
    /\ login = LoginStart
    /\ hook = HookStart

Init ==
    /\ ClientIdle
    /\ env \in {[apiKey |-> k] : k \in ApiKeys}
    /\ pc = [r \in Slots |-> "idle"]
    /\ httpBody = [r \in Slots |-> UnparsedBody("")]
    /\ requestBody = [r \in Slots |-> EmptyObject]
    /\ pending = [r \in Slots |-> None]
    /\ log = [r \in Slots |-> <<>>]
    /\ requestId = [r \in Slots |-> ""]
    /\ probe = None

\* Faulty variant: the handler does not look at the API key.
ApiKeyConfigured_Unchecked(e) == TRUE

\* line 415: process.env.GOOGLE_GENERATIVE_AI_API_KEY read as a condition
ApiKeyConfigured(e) == Truthy(e.apiKey)

\* the ids held by the executions that run beside r
IdsInUse(r) == {requestId[q] : q \in {s \in Slots \ {r} : pc[s] # "idle"}}

\* lines 409-419: POST is invoked with a body out of `bodies`;
\* crypto.randomUUID() gives an id out of `uuids` that no running execution
\* holds; without an API key the handler throws at once, otherwise it awaits
\* request.json()
Receive(r, bodies, uuids) ==
    /\ pc[r] = "idle"
    /\ \E b \in bodies : httpBody' = [httpBody EXCEPT ![r] = b]
    /\ requestBody' = [requestBody EXCEPT ![r] = EmptyObject]
    /\ \E id \in uuids \ IdsInUse(r) :
        /\ requestId' = [requestId EXCEPT ![r] = id]
        /\ IF ~ApiKeyConfigured(env)
           THEN Respond(r, CatchResponse(ApiKeyError, EmptyObject, id))
           ELSE /\ pc' = [pc EXCEPT ![r] = "json"]
                /\ log' = [log EXCEPT ![r] = <<>>]
                /\ pending' = pending
    /\ UNCHANGED <<env, probe, client>>

Post(r) == Receive(r, HttpBodies, SerialUuids)

\* line 419: request.json() rejects
JsonRejects(r) ==
    /\ pc[r] = "json"
    /\ ~httpBody[r].parses
    /\ Respond(r, CatchResponse(Thrown(httpBody[r].error), requestBody[r], requestId[r]))
    /\ UNCHANGED <<env, httpBody, requestBody, requestId, probe, client>>

\* lines 419-427: the body parses and the schema rejects it
SchemaRejects(r) ==
    /\ pc[r] = "json"
    /\ httpBody[r].parses
    /\ SchemaIssues(httpBody[r].json) # <<>>
    /\ requestBody' = [requestBody EXCEPT ![r] = httpBody[r].json]
    /\ Respond(r, ValidationResponse(SchemaIssues(httpBody[r].json)))
    /\ UNCHANGED <<env, httpBody, requestId, probe, client>>

\* lines 419-527: the body is valid; the reference image is loaded, the parts
\* are assembled and generateContent is called and awaited
Submit(r) ==
    /\ pc[r] = "json"
    /\ httpBody[r].parses
    /\ SchemaIssues(httpBody[r].json) = <<>>
    /\ requestBody' = [requestBody EXCEPT ![r] = httpBody[r].json]
    /\ \E fs \in FsOutcomes :
        LET data == httpBody[r].json
            filename == aspectRatioConfig[Get(data.aspectRatio)].filename
            referenceImagePart == getLocalReferenceImagePart(filename, fs)
            call == GenerateContentCall(data, referenceImagePart)
        IN  /\ log' = [log EXCEPT ![r] =
                    @ \o <<Event("builder", data),
                           Event("load", [filename |-> filename, fs |-> fs,
                                          part |-> referenceImagePart]),
                           Event("call", call)>>]
            /\ pending' = [pending EXCEPT ![r] = Some(call)]
    /\ pc' = [pc EXCEPT ![r] = "provider"]
    /\ UNCHANGED <<env, httpBody, requestId, probe, client>>

\* generateContent resolves: the provider answered with one of `responses`
Resolves(r, responses) ==
    /\ pc[r] = "provider"
    /\ \E response \in responses :
        log' = [log EXCEPT ![r] = Append(@, Event("returned", response))]
    /\ pc' = [pc EXCEPT ![r] = "resolved"]
    /\ pending' = [pending EXCEPT ![r] = None]
    /\ UNCHANGED <<env, httpBody, requestBody, requestId, probe, client>>

ProviderReturns(r) == Resolves(r, ProviderResponses)

\* Faulty variant: the call is raced against a timer, and the handler answers
\* 504 when the timer fires first.
Rejects_Deadline(r, errors) ==
    /\ pc[r] = "provider"
    /\ Respond(r, CatchResponse(Thrown("Request timeout"), requestBody[r], requestId[r]))
    /\ UNCHANGED <<env, httpBody, requestBody, requestId, probe, client>>

\* generateContent rejects: the call failed with one of `errors`
Rejects(r, errors) ==
    /\ pc[r] = "provider"
    /\ \E thrown \in errors :
        log' = [log EXCEPT ![r] = Append(@, Event("rejected", thrown))]
    /\ pc' = [pc EXCEPT ![r] = "rejected"]
    /\ pending' = [pending EXCEPT ![r] = None]
    /\ UNCHANGED <<env, httpBody, requestBody, requestId, probe, client>>

ProviderThrows(r) == Rejects(r, ProviderErrors)

\* what the awaited call settled with
Settled(r) == log[r][Len(log[r])].data

\* Faulty variant: `requestBody` is declared at module level, so the handler
\* reads what the execution beside it assigned last.
Interpret_SharedBody(r) ==
    /\ pc[r] = "resolved"
    /\ \E body \in {IF \E q \in Slots \ {r} : pc[q] \in {"provider", "resolved", "rejected"}
                     THEN requestBody[CHOOSE q \in Slots \ {r} :
                                        pc[q] \in {"provider", "resolved", "rejected"}]
                     ELSE requestBody[r]} :
        \E result \in {handleApiResponse(Settled(r))} :
            \E answer \in {IF result.threw
                            THEN CatchResponse(result, body, requestId[r])
                            ELSE SuccessResponse(body, result.value, requestId[r])} :
                Respond(r, answer)
    /\ UNCHANGED <<env, httpBody, requestBody, requestId, probe, client>>

\* lines 529-547, and 549-575 when handleApiResponse throws
Interpret(r) ==
    /\ pc[r] = "resolved"
    /\ \E result \in {handleApiResponse(Settled(r))} :
        \E answer \in {IF result.threw
                        THEN CatchResponse(result, requestBody[r], requestId[r])
                        ELSE SuccessResponse(requestBody[r], result.value, requestId[r])} :
            Respond(r, answer)
    /\ UNCHANGED <<env, httpBody, requestBody, requestId, probe, client>>

\* Faulty variant: the await is outside the try block, so a rejection escapes the
\* handler and no response is built.
Catch_Missing(r) ==
    /\ pc[r] = "rejected"
    /\ pc' = [pc EXCEPT ![r] = "done"]
    /\ UNCHANGED <<env, httpBody, requestBody, pending, log, requestId, probe, client>>

\* Faulty variant: a rejected call is tried once more.
Catch_Retry(r) ==
    /\ pc[r] = "rejected"
    /\ IF Len(EventsOf(r, "call")) < 2
       THEN /\ log' = [log EXCEPT ![r] = Append(@, EventsOf(r, "call")[1])]
            /\ pending' = [pending EXCEPT ![r] = Some(EventsOf(r, "call")[1].data)]
            /\ pc' = [pc EXCEPT ![r] = "provider"]
       ELSE Respond(r, CatchResponse(Settled(r), requestBody[r], requestId[r]))
    /\ UNCHANGED <<env, httpBody, requestBody, requestId, probe, client>>

\* lines 549-575: the rejection of generateContent is caught
Catch(r) ==
    /\ pc[r] = "rejected"
    /\ \E answer \in {CatchResponse(Settled(r), requestBody[r], requestId[r])} :
        Respond(r, answer)
    /\ UNCHANGED <<env, httpBody, requestBody, requestId, probe, client>>

\* the execution has returned; its locals are gone and the slot takes the
\* next request
Return(r) ==
    /\ pc[r] = "done"
    /\ pc' = [pc EXCEPT ![r] = "idle"]
    /\ httpBody' = [httpBody EXCEPT ![r] = UnparsedBody("")]
    /\ requestBody' = [requestBody EXCEPT ![r] = EmptyObject]
    /\ pending' = [pending EXCEPT ![r] = None]
    /\ log' = [log EXCEPT ![r] = <<>>]
    /\ requestId' = [requestId EXCEPT ![r] = ""]
    /\ UNCHANGED <<env, probe, client>>

\* lines 579-600: GET is answered; it reads nothing of any POST
GET ==
    /\ probe' = Some(HealthResponse)
    /\ UNCHANGED <<env, pc, httpBody, requestBody, pending, log, requestId, client>>

Next ==
    \E r \in Serial :
        \/ Post(r)
        \/ JsonRejects(r)
        \/ SchemaRejects(r)
        \/ Submit(r)
        \/ ProviderReturns(r)
        \/ ProviderThrows(r)
        \/ Interpret(r)
        \/ Catch(r)
        \/ Return(r)

Spec == Init /\ [][Next]_vars

\* The runtime resumes a handler whose awaited promise has settled:
\* request.json() always settles, and so does generateContent when the
\* provider eventually returns or throws.
FairSpec ==
    /\ Spec
    /\ \A r \in Slots :
        /\ WF_vars(JsonRejects(r) \/ SchemaRejects(r) \/ Submit(r)
                        \/ Interpret(r) \/ Catch(r))
        /\ WF_vars(ProviderReturns(r) \/ ProviderThrows(r))

-----------------------------------------------------------------------------
(* The route under load: POST executions run side by side, each suspended  *)
(* at its own awaits, and GET is answered in between.  The requests and    *)
(* provider answers are a few of those above.                              *)

ConcurrentBodies ==
    {ParsedBody(JsonObject(Some("a cat astronaut"), Some("1:1"), None, None, c)) :
        c \in CacheFlags}
    \cup {ParsedBody(JsonObject(Some("a"), Some("16:9"), Some(Num(42)),
                                Some("data:image/png;base64,dXNlcg=="), None)),
          ParsedBody(JsonObject(Some(""), Some("1:1"), None, None, None))}
    \cup {UnparsedBody(e) : e \in JsonParseErrors}

ConcurrentResponses ==
    {ProviderResponse(None, None, <<Candidate(<<PngPart>>, Some("STOP"))>>),
     ProviderResponse(None, None, <<Candidate(<<JpegPart>>, Some("STOP"))>>),
     ProviderResponse(Some("SAFETY"), None, <<>>)}

ConcurrentErrors == {Thrown("fetch failed")}

ConcurrentPost(r) == Receive(r, ConcurrentBodies, Uuids)
ConcurrentReturns(r) == Resolves(r, ConcurrentResponses)
ConcurrentThrows(r) == Rejects(r, ConcurrentErrors)

ServerNext ==
    \/ GET
    \/ \E r \in Slots :
        \/ ConcurrentPost(r)
        \/ JsonRejects(r)
        \/ SchemaRejects(r)
        \/ Submit(r)
        \/ ConcurrentReturns(r)
        \/ ConcurrentThrows(r)
        \/ Interpret(r)
        \/ Catch(r)
        \/ Return(r)

ServerSpec == Init /\ [][ServerNext]_vars

TypeOK ==
    \A r \in Slots :
        pc[r] \in {"idle", "json", "provider", "resolved", "rejected", "done"}

-----------------------------------------------------------------------------
(* Reading an execution.                                                   *)

Done(r) == pc[r] = "done"
\* the response of a finished execution
Answer(r) == log[r][Len(log[r])].data
HasEvent(r, ev) == \E i \in 1..Len(log[r]) : log[r][i].ev = ev
KeyConfigured == IsSome(env.apiKey) /\ Get(env.apiKey) # ""

-----------------------------------------------------------------------------
(* C1: for every aspect ratio and every provider response that carries an  *)
(* image, the success response reports metadata.width and metadata.height  *)
(* equal to the aspectRatioConfig entry of the requested ratio, whatever   *)
(* the provider returned and whatever image the user supplied.             *)

C1_SuccessDimensionsAreProfile ==
    \A r \in Slots :
        (Done(r) /\ Answer(r).success) =>
            LET ratio == Get(httpBody[r].json.aspectRatio)
                meta == Get(Answer(r).metadata)
            IN  /\ ratio \in AspectRatios
                /\ meta.width = Some(aspectRatioConfig[ratio].width)
                /\ meta.height = Some(aspectRatioConfig[ratio].height)

C1_Witness ==
    \E r \in Slots :
        /\ Done(r) /\ Answer(r).success
        /\ httpBody[r].json.aspectRatio = Some("16:9")
        /\ httpBody[r].json.userImage = Some("data:image/png;base64,dXNlcg==")
        /\ Get(Answer(r).metadata).width = Some(1920)
        /\ Get(Answer(r).metadata).height = Some(1080)

-----------------------------------------------------------------------------
(* C2.  The input constraints, written from the claim: prompt empty or     *)
(* longer than 1000 characters, aspectRatio outside the five ratios, seed  *)
(* present but negative, non-integer or above 2147483647.                  *)

SeedOutOfRange(x) ==
    \/ x.half
    \/ x.hi < 0
    \/ x.hi > 32767

ViolatesConstraint(json) ==
    \/ IsSome(json.prompt) /\ (Get(json.prompt) = "" \/ Len(Get(json.prompt)) > 1000)
    \/ IsSome(json.aspectRatio)
       /\ Get(json.aspectRatio) \notin {"1:1", "16:9", "9:16", "4:3", "3:4"}
    \/ IsSome(json.seed) /\ SeedOutOfRange(Get(json.seed))

\* a request on the boundary of every constraint
OnBoundary(json) ==
    /\ IsSome(json.prompt) /\ Len(Get(json.prompt)) \in {1, 1000}
    /\ IsSome(json.aspectRatio) /\ Get(json.aspectRatio) \in {"1:1", "16:9", "9:16", "4:3", "3:4"}
    /\ IsSome(json.seed)
    /\ Get(json.seed) \in {[hi |-> 0, lo |-> 0, half |-> FALSE],
                           [hi |-> 32767, lo |-> 65535, half |-> FALSE]}

RejectedBySchema(r) ==
    /\ Answer(r).status = 400
    /\ ~Answer(r).success
    /\ StartsWith(Get(Answer(r).error), "Validation error: ")

NeverBuiltNorCalled(r) == ~HasEvent(r, "builder") /\ ~HasEvent(r, "call")

(* C2 as claimed: a request that violates an input constraint is answered  *)
(* with status 400 and success=false by schema validation, the request     *)
(* builder is never entered and the provider is never called.              *)
C2_Original ==
    \A r \in Slots :
        (httpBody[r].parses /\ ViolatesConstraint(httpBody[r].json)) =>
            /\ NeverBuiltNorCalled(r)
            /\ Done(r) => RejectedBySchema(r)

(* C2 as amended: with the API key configured, a request that violates an *)
(* input constraint is answered with status 400 and success=false by       *)
(* schema validation (without the key the answer is the configuration      *)
(* error, before the body is read); in either case the request builder is  *)
(* never entered and the provider never called; and a request on the       *)
(* boundary (prompt length 1 or 1000, seed 0 or 2147483647) passes         *)
(* validation and reaches the builder.                                     *)
C2_InvalidRejectedWhenKeyConfigured ==
    \A r \in Slots :
        /\ (httpBody[r].parses /\ ViolatesConstraint(httpBody[r].json)) =>
              /\ NeverBuiltNorCalled(r)
              /\ (Done(r) /\ KeyConfigured) => RejectedBySchema(r)
        /\ (httpBody[r].parses /\ OnBoundary(httpBody[r].json)
              /\ pc[r] \notin {"idle", "json"} /\ KeyConfigured) =>
              /\ HasEvent(r, "builder")
              /\ HasEvent(r, "call")

C2_Witness ==
    \E r \in Slots :
        /\ Done(r) /\ KeyConfigured
        /\ httpBody[r].json.seed = Some([hi |-> 32768, lo |-> 0, half |-> FALSE])
        /\ httpBody[r].json.prompt = Some("a cat astronaut")
        /\ httpBody[r].json.aspectRatio = Some("1:1")
        /\ RejectedBySchema(r)

-----------------------------------------------------------------------------
(* C3 as claimed: if the blank reference image of the requested ratio is   *)
(* missing or cannot be read, POST fails fast with status 500 and makes no *)
(* provider call: every provider call is preceded by a successful load of  *)
(* the reference image of that request's ratio.                            *)

LoadedReference(r, i) ==
    /\ log[r][i].ev = "load"
    /\ log[r][i].data.fs = "ok"
    /\ log[r][i].data.filename
         = aspectRatioConfig[Get(httpBody[r].json.aspectRatio)].filename

C3_FailFastWithoutReference ==
    \A r \in Slots :
        /\ \A j \in 1..Len(log[r]) :
              log[r][j].ev = "call" => \E i \in 1..(j - 1) : LoadedReference(r, i)
        /\ (Done(r) /\ \E i \in 1..Len(log[r]) :
                          log[r][i].ev = "load" /\ log[r][i].data.fs # "ok") =>
              Answer(r).status = 500 /\ ~HasEvent(r, "call")

-----------------------------------------------------------------------------
(* C4 as claimed: in every provider call the parts are ordered [reference  *)
(* blank image of the requested ratio, user image, text]: the reference    *)
(* image is at index 0, the user image is present (at index 1) exactly     *)
(* when the request supplied one, exactly one text part comes last, and    *)
(* the user image never takes the place of the reference image.            *)

IsReferencePart(part, ratio) ==
    part.inlineData
        = Some([mimeType |-> "image/png",
                data |-> FileBase64(aspectRatioConfig[ratio].filename)])

IsUserPart(part, userImage) ==
    IsSome(part.inlineData) /\ Includes(userImage, Get(part.inlineData).data)

PartsOrdered(parts, json) ==
    LET n == Len(parts)
        supplied == IsSome(json.userImage) /\ Get(json.userImage) # ""
    IN  /\ n = IF supplied THEN 3 ELSE 2
        /\ IsReferencePart(parts[1], Get(json.aspectRatio))
        /\ supplied => IsUserPart(parts[2], Get(json.userImage))
        /\ IsSome(parts[n].text)
        /\ \A i \in 1..(n - 1) : ~IsSome(parts[i].text)

C4_PartsOrdered ==
    \A r \in Slots :
        IsSome(pending[r]) => PartsOrdered(Get(pending[r]).parts, httpBody[r].json)

-----------------------------------------------------------------------------
(* The provider's answer in a finished execution.                          *)

\* what generateContent resolved with, or rejected with, in this execution
ReturnedIn(r) == {log[r][i].data : i \in {j \in 1..Len(log[r]) : log[r][j].ev = "returned"}}
RejectedIn(r) == {log[r][i].data : i \in {j \in 1..Len(log[r]) : log[r][j].ev = "rejected"}}
ReturnedTo(r, response) == response \in ReturnedIn(r)
RejectedWith(r, thrown) == thrown \in RejectedIn(r)

Blocked(response) == IsSome(response.blockReason) /\ Get(response.blockReason) # ""

\* the first inline image of the first candidate, as a set (empty: none)
FirstImages(response) ==
    IF Len(response.candidates) = 0 THEN {}
    ELSE LET parts == response.candidates[1].parts
         IN  {parts[i].inlineData[1] :
                i \in {j \in 1..Len(parts) :
                        /\ IsSome(parts[j].inlineData)
                        /\ \A k \in 1..(j - 1) : ~IsSome(parts[k].inlineData)}}

HasTextFeedback(response) ==
    \E c \in 1..Len(response.candidates) :
        \E i \in 1..Len(response.candidates[c].parts) :
            /\ IsSome(response.candidates[c].parts[i].text)
            /\ Trim(Get(response.candidates[c].parts[i].text)) # ""

HasImage(response) ==
    \E c \in 1..Len(response.candidates) :
        \E i \in 1..Len(response.candidates[c].parts) :
            IsSome(response.candidates[c].parts[i].inlineData)

-----------------------------------------------------------------------------
(* C5 as claimed: for every block reason the provider reports, with or     *)
(* without a block message of any content, the answer is a failure whose   *)
(* error message contains the block reason verbatim and whose status is    *)
(* 400.                                                                    *)

C5_BlockedIs400 ==
    \A r \in Slots : \A response \in ReturnedIn(r) :
        (Done(r) /\ Blocked(response)) =>
            /\ ~Answer(r).success
            /\ Includes(Get(Answer(r).error), Get(response.blockReason))
            /\ Answer(r).status = 400

-----------------------------------------------------------------------------
(* C6 as claimed: for every provider response with no block reason, no     *)
(* image payload and no text feedback, with any finish reason or none, the *)
(* failure message states that the model did not return an image and       *)
(* suggests rephrasing the prompt.                                         *)

SaysNoImageAndRephrase(r) ==
    /\ ~Answer(r).success
    /\ Includes(Get(Answer(r).error), "did not return an image")
    /\ Includes(Get(Answer(r).error), "Please try rephrasing your prompt")

EmptyResponse(response) ==
    ~Blocked(response) /\ ~HasImage(response) /\ ~HasTextFeedback(response)

C6_Original ==
    \A r \in Slots : \A response \in ReturnedIn(r) :
        (Done(r) /\ EmptyResponse(response)) =>
            SaysNoImageAndRephrase(r)

(* C6 as amended: for every provider response with no block reason, no     *)
(* image payload and no text feedback whose first candidate has no finish  *)
(* reason or the finish reason STOP, the failure message states that the   *)
(* model did not return an image and suggests rephrasing the prompt.       *)
FinishedNormally(response) ==
    \/ Len(response.candidates) = 0
    \/ response.candidates[1].finishReason \in {None, Some(""), Some("STOP")}

C6_EmptyResponseSuggestsRephrasing ==
    \A r \in Slots : \A response \in ReturnedIn(r) :
        (Done(r) /\ EmptyResponse(response)
            /\ FinishedNormally(response)) =>
            SaysNoImageAndRephrase(r)

C6_Witness ==
    \E r \in Slots :
        /\ Done(r)
        /\ ReturnedTo(r, ProviderResponse(None, None,
                            <<Candidate(<<TextPart("  ")>>, Some("STOP"))>>))
        /\ SaysNoImageAndRephrase(r)

-----------------------------------------------------------------------------
(* C7: whenever the provider response carries an inline image and no block *)
(* reason, the answer is a success whose imageUrl is "data:" + the MIME    *)
(* type the provider declared + ";base64," + the provider's payload        *)
(* unchanged; for {prompt: "a cat astronaut", aspectRatio: "1:1"} and a    *)
(* PNG payload the result has width 1024, height 1024 and an imageUrl      *)
(* starting with "data:image/png;base64,".                                 *)

CatAstronaut(r) ==
    httpBody[r].json = [prompt |-> Some("a cat astronaut"), aspectRatio |-> Some("1:1"),
                        seed |-> None, userImage |-> None, cacheEnabled |-> None]

C7_ImageBecomesDataUri ==
    \A r \in Slots : \A response \in ReturnedIn(r) :
        (Done(r) /\ ~Blocked(response)) =>
            \A image \in FirstImages(response) :
                /\ Answer(r).success
                /\ Answer(r).status = 200
                /\ Answer(r).imageUrl
                     = Some("data:" \o image.mimeType \o ";base64," \o image.data)
                /\ (CatAstronaut(r) /\ image.mimeType = "image/png") =>
                     /\ Get(Answer(r).metadata).width = Some(1024)
                     /\ Get(Answer(r).metadata).height = Some(1024)
                     /\ StartsWith(Get(Answer(r).imageUrl), "data:image/png;base64,")

C7_Witness ==
    \E r \in Slots :
        /\ Done(r) /\ CatAstronaut(r)
        /\ ReturnedTo(r, ProviderResponse(None, None,
                            <<Candidate(<<PngPart>>, Some("STOP"))>>))
        /\ Answer(r).imageUrl = Some("data:image/png;base64,iVBORw0KGgoAAAANSUhEUg")
        /\ Get(Answer(r).metadata).width = Some(1024)

-----------------------------------------------------------------------------
(* C8: when the API key environment variable is not set, every POST,       *)
(* whatever its body (valid, invalid or unparseable), returns a failure    *)
(* envelope with a configuration error message, and the provider is never  *)
(* contacted.                                                              *)

C8_NoKeyNoProviderCall ==
    ~KeyConfigured =>
        \A r \in Slots :
            /\ pc[r] \in {"idle", "done"}
            /\ ~HasEvent(r, "call") /\ ~IsSome(pending[r])
            /\ Done(r) =>
                /\ ~Answer(r).success
                /\ Answer(r).status = 500
                /\ Includes(Get(Answer(r).error), "API key not configured")

C8_Witness ==
    \E r \in Slots :
        /\ env.apiKey = None
        /\ Done(r) /\ CatAstronaut(r)
        /\ Answer(r).error
             = Some("Failed to generate image: Google Generative AI API key not configured")

-----------------------------------------------------------------------------
(* C9: in every execution of POST the provider's generate call is invoked  *)
(* at most once; after that call throws, or returns a response that is     *)
(* blocked or has no image, the handler makes no further call and          *)
(* surfaces that single failure to the caller.                             *)

C9_SingleCallNoRetry ==
    \A r \in Slots :
        /\ Len(EventsOf(r, "call")) <= 1
        /\ \A i \in 1..Len(log[r]) :
              log[r][i].ev \in {"returned", "rejected"} =>
                  /\ \A j \in (i + 1)..Len(log[r]) : log[r][j].ev # "call"
                  /\ Len(log[r]) = IF Done(r) THEN i + 1 ELSE i
        /\ \A thrown \in RejectedIn(r) :
              Done(r) =>
                  /\ ~Answer(r).success
                  /\ Answer(r).error
                       = Some("Failed to generate image: "
                                \o (IF thrown.isError THEN thrown.value ELSE "Unknown error"))
        /\ \A response \in ReturnedIn(r) :
              (Done(r) /\ (Blocked(response) \/ FirstImages(response) = {})) =>
                  /\ ~Answer(r).success
                  /\ StartsWith(Get(Answer(r).error), "Failed to generate image: ")

C9_Witness ==
    \E r \in Slots :
        /\ Done(r)
        /\ RejectedWith(r, Thrown("fetch failed"))
        /\ Len(EventsOf(r, "call")) = 1
        /\ Answer(r).error = Some("Failed to generate image: fetch failed")

-----------------------------------------------------------------------------
(* C10: every POST produces exactly one outcome, a success (success=true   *)
(* with imageUrl and no error) or a failure (success=false with error and  *)
(* no imageUrl), never both and never two responses; assuming the provider *)
(* call eventually returns or throws, every request eventually reaches     *)
(* that outcome; and nothing of a request is carried into a later one.     *)

IsSuccess(a) == a.success /\ IsSome(a.imageUrl) /\ ~IsSome(a.error)
IsFailure(a) == ~a.success /\ IsSome(a.error) /\ ~IsSome(a.imageUrl)

OneOutcome(r) ==
    /\ Len(EventsOf(r, "response")) = IF Done(r) THEN 1 ELSE 0
    /\ Done(r) =>
        /\ log[r][Len(log[r])].ev = "response"
        /\ IsSuccess(Answer(r)) \/ IsFailure(Answer(r))
        /\ ~(IsSuccess(Answer(r)) /\ IsFailure(Answer(r)))

NothingCarried(r) ==
    /\ pc[r] = "idle" =>
        /\ log[r] = <<>>
        /\ pending[r] = None
        /\ requestBody[r] = [prompt |-> None, aspectRatio |-> None, seed |-> None,
                             userImage |-> None, cacheEnabled |-> None]
    /\ requestBody[r] \in {[prompt |-> None, aspectRatio |-> None, seed |-> None,
                             userImage |-> None, cacheEnabled |-> None], httpBody[r].json}
    /\ (Done(r) /\ IsSome(Answer(r).metadata)) =>
        /\ Get(Answer(r).metadata).prompt
             \in {"", IF IsSome(httpBody[r].json.prompt) THEN Get(httpBody[r].json.prompt)
                      ELSE ""}
        /\ Get(Answer(r).metadata).seed \in {None, httpBody[r].json.seed}

C10_ExactlyOneOutcome ==
    /\ [](\A r \in Slots : OneOutcome(r) /\ NothingCarried(r))
    /\ \A r \in Slots : (pc[r] \notin {"idle", "done"}) ~> Done(r)

C10_Witness ==
    \E r \in Slots :
        /\ Done(r)
        /\ IsFailure(Answer(r))
        /\ RejectedWith(r, ThrownValue("ECONNRESET"))
        /\ Len(EventsOf(r, "response")) = 1

-----------------------------------------------------------------------------
(* The error the catch block caught, read off its answer: the answer's     *)
(* error is "Failed to generate image: " followed by the caught message.   *)

CaughtIn(r) ==
    IF Done(r) /\ ~Answer(r).success
       /\ StartsWith(Get(Answer(r).error), "Failed to generate image: ")
    THEN {SubSeq(Get(Answer(r).error), 27, Len(Get(Answer(r).error)))}
    ELSE {}

-----------------------------------------------------------------------------
(* C11 as claimed: whenever the handler catches an error whose message     *)
(* contains 'quota' or '429', whatever else the message contains, the      *)
(* response status is 429.                                                 *)

C11_QuotaIs429 ==
    \A r \in Slots : \A m \in CaughtIn(r) :
        (Includes(m, "quota") \/ Includes(m, "429")) => Answer(r).status = 429

-----------------------------------------------------------------------------
(* C12 as claimed: whenever the handler catches an error whose message     *)
(* contains 'safety', 'policy' or 'blocked', whatever else the message     *)
(* contains, the response status is 400.                                   *)

C12_SafetyIs400 ==
    \A r \in Slots : \A m \in CaughtIn(r) :
        (Includes(m, "safety") \/ Includes(m, "policy") \/ Includes(m, "blocked")) =>
            Answer(r).status = 400

-----------------------------------------------------------------------------
(* C13: a caught error whose message contains none of the classification   *)
(* phrases, and a thrown value that is not an Error, is answered with      *)
(* status 500; and every failure response carries a status out of          *)
(* {400, 429, 500, 503, 504}.                                              *)

ClassificationPhrases ==
    {"quota", "429", "safety", "policy", "blocked", "model", "not found", "timeout",
     "validation", "invalid"}

Unclassified(m) == \A k \in ClassificationPhrases : ~Includes(m, k)

C13_UnclassifiedIs500 ==
    \A r \in Slots :
        /\ \A m \in CaughtIn(r) : Unclassified(m) => Answer(r).status = 500
        /\ \A thrown \in RejectedIn(r) :
              (Done(r) /\ ~thrown.isError) => Answer(r).status = 500
        /\ (Done(r) /\ ~Answer(r).success) =>
              Answer(r).status \in {400, 429, 500, 503, 504}

C13_Witness ==
    \E r \in Slots :
        /\ Done(r)
        /\ RejectedWith(r, ThrownValue("ECONNRESET"))
        /\ Answer(r).error = Some("Failed to generate image: Unknown error")
        /\ Answer(r).status = 500

-----------------------------------------------------------------------------
(* C14: a caught error whose message reports a timeout (it contains        *)
(* 'timeout') is answered with status 504.                                 *)

-----------------------------------------------------------------------------
(* C15 as claimed: for every valid request the provider call carries the   *)
(* request's seed exactly when the request supplied one (any integer from  *)
(* 0 to 2147483647, 0 included), and carries no seed when the request      *)
(* supplied none.                                                          *)

C15_SeedForwarded ==
    \A r \in Slots :
        IsSome(pending[r]) =>
            Get(pending[r]).generationConfig
                = IF IsSome(httpBody[r].json.seed)
                  THEN Some([seed |-> Get(httpBody[r].json.seed)])
                  ELSE None

-----------------------------------------------------------------------------
(* C16 as claimed: every failure response, whatever its cause, has         *)
(* success=false, a non-empty error message and a metadata object that     *)
(* echoes the request's prompt and, whenever the request named a supported *)
(* aspect ratio, that ratio's profile width and height.                    *)

EchoesRequest(meta, json) ==
    /\ meta.prompt = (IF IsSome(json.prompt) THEN Get(json.prompt) ELSE "")
    /\ (IsSome(json.aspectRatio)
          /\ Get(json.aspectRatio) \in {"1:1", "16:9", "9:16", "4:3", "3:4"}) =>
            /\ meta.width = Some(aspectRatioConfig[Get(json.aspectRatio)].width)
            /\ meta.height = Some(aspectRatioConfig[Get(json.aspectRatio)].height)

C16_FailureEnvelope ==
    \A r \in Slots :
        (Done(r) /\ ~Answer(r).success) =>
            /\ IsSome(Answer(r).error) /\ Get(Answer(r).error) # ""
            /\ IsSome(Answer(r).metadata)
            /\ EchoesRequest(Get(Answer(r).metadata), httpBody[r].json)

-----------------------------------------------------------------------------
(* C18: for the request {prompt: "a cat astronaut", aspectRatio: "1:1"},   *)
(* when the provider's response reports blockReason "SAFETY" with no block *)
(* message, the result is a failure with status 400 whose error message    *)
(* contains "SAFETY".                                                      *)

C18_SafetyScenario ==
    \A r \in Slots : \A response \in ReturnedIn(r) :
        (Done(r) /\ CatAstronaut(r)
            /\ response.blockReason = Some("SAFETY")
            /\ response.blockReasonMessage \in {None, Some("")}) =>
            /\ ~Answer(r).success
            /\ Answer(r).status = 400
            /\ Includes(Get(Answer(r).error), "SAFETY")

C18_Witness ==
    \E r \in Slots :
        /\ Done(r) /\ CatAstronaut(r)
        /\ ReturnedTo(r, ProviderResponse(Some("SAFETY"), None, <<>>))
        /\ Answer(r).status = 400
        /\ Answer(r).error
             = Some("Failed to generate image: Request was blocked. Reason: SAFETY. ")

-----------------------------------------------------------------------------
(* C17: every valid request reaches the provider with its own call, even   *)
(* when an identical request was answered before, and cacheEnabled has no  *)
(* effect: two requests that differ only in cacheEnabled produce the same  *)
(* provider call (the reference image being read alike) and, for the same  *)
(* provider response, the same status, imageUrl and metadata dimensions.   *)

ValidRequest(json) ==
    IsSome(json.prompt) /\ IsSome(json.aspectRatio) /\ ~ViolatesConstraint(json)

SameButCacheEnabled(a, b) ==
    /\ a.prompt = b.prompt
    /\ a.aspectRatio = b.aspectRatio
    /\ a.seed = b.seed
    /\ a.userImage = b.userImage

LoadsOf(r) == {log[r][i].data.fs : i \in {j \in 1..Len(log[r]) : log[r][j].ev = "load"}}

SameOutcome(a, b) ==
    /\ a.status = b.status
    /\ a.success = b.success
    /\ a.imageUrl = b.imageUrl
    /\ a.error = b.error
    /\ IsSome(a.metadata) = IsSome(b.metadata)
    /\ IsSome(a.metadata) =>
         /\ Get(a.metadata).width = Get(b.metadata).width
         /\ Get(a.metadata).height = Get(b.metadata).height

-----------------------------------------------------------------------------
(* C19: GET lists exactly the aspect ratios that the POST schema accepts,  *)
(* each with the "<width>x<height>" that a successful POST reports for     *)
(* that ratio and with its platform label, together with the supported     *)
(* formats and the capability tags.                                        *)

Listed(body) ==
    {body.supportedAspectRatios[i] : i \in 1..Len(body.supportedAspectRatios)}

\* ratios a request may name, accepted or not
NamedRatios == {"1:1", "16:9", "9:16", "4:3", "3:4", "2:1", "21:9", ""}

C19_GetListsProfiles ==
    IsSome(probe) =>
        LET body == Get(probe)
        IN  /\ \A a \in NamedRatios :
                  (\E e \in Listed(body) : e.aspectRatio = a)
                      <=> AspectRatioIssues(Some(a)) = <<>>
            /\ Cardinality(Listed(body)) = Len(body.supportedAspectRatios)
            /\ \A e \in Listed(body) : e.aspectRatio \in NamedRatios /\ e.platform # ""
            /\ \A r \in Slots : \A e \in Listed(body) :
                  (Done(r) /\ Answer(r).success
                      /\ Get(Answer(r).metadata).aspectRatio = e.aspectRatio) =>
                      /\ e.dimensions
                           = NumberToString(Get(Get(Answer(r).metadata).width)) \o "x"
                               \o NumberToString(Get(Get(Answer(r).metadata).height))
                      /\ e.platform = Get(Answer(r).metadata).platform
            /\ body.supportedFormats = <<"jpeg", "png">>
            /\ Len(body.capabilities) > 0

C19_Witness ==
    /\ IsSome(probe)
    /\ \E e \in Listed(Get(probe)) :
          e.aspectRatio = "16:9" /\ e.dimensions = "1920x1080" /\ e.platform = "YouTube"
    /\ \E r \in Slots :
          /\ Done(r) /\ Answer(r).success
          /\ Get(Answer(r).metadata).aspectRatio = "16:9"
          /\ Get(Answer(r).metadata).width = Some(1920)

-----------------------------------------------------------------------------
(* C20: for any interleaving of concurrent POST requests suspended at the  *)
(* provider call, in whatever order the calls complete, each response is   *)
(* built only from its own request and its own provider response: its      *)
(* metadata prompt, width, height, seed and requestId are those of that    *)
(* request, its image is the one its own call returned, its error the one  *)
(* its own call raised; and no step of one request changes what another    *)
(* request reads.                                                          *)

OwnRequest(r) ==
    LET a == Answer(r)
        json == httpBody[r].json
        meta == Get(a.metadata)
    IN  /\ a.success =>
            /\ meta.prompt = Get(json.prompt)
            /\ meta.width = Some(aspectRatioConfig[Get(json.aspectRatio)].width)
            /\ meta.height = Some(aspectRatioConfig[Get(json.aspectRatio)].height)
            /\ meta.seed = json.seed
            /\ meta.requestId = requestId[r]
        /\ (~a.success /\ IsSome(a.metadata)) =>
            /\ meta.prompt \in {"", IF IsSome(json.prompt) THEN Get(json.prompt) ELSE ""}
            /\ meta.width \in {None} \cup
                   {Some(aspectRatioConfig[x].width) :
                       x \in {y \in {"1:1", "16:9", "9:16", "4:3", "3:4"} :
                                json.aspectRatio = Some(y)}}
            /\ meta.height \in {None} \cup
                   {Some(aspectRatioConfig[x].height) :
                       x \in {y \in {"1:1", "16:9", "9:16", "4:3", "3:4"} :
                                json.aspectRatio = Some(y)}}
            /\ meta.requestId = requestId[r]

OwnProviderResponse(r) ==
    LET a == Answer(r)
    IN  /\ a.success =>
            \E response \in ReturnedIn(r) : \E image \in FirstImages(response) :
                a.imageUrl = Some("data:" \o image.mimeType \o ";base64," \o image.data)
        /\ \A thrown \in RejectedIn(r) :
              a.error = Some("Failed to generate image: "
                                \o (IF thrown.isError THEN thrown.value ELSE "Unknown error"))
        /\ \A response \in ReturnedIn(r) :
              Blocked(response) =>
                  ~a.success /\ Includes(Get(a.error), Get(response.blockReason))

\* what the execution in slot r reads and writes
SlotState(r) == <<pc[r], httpBody[r], requestBody[r], pending[r], log[r], requestId[r]>>

\* running side by side, two executions hold different request ids
Concurrently(r, q) == r # q /\ pc[r] # "idle" /\ pc[q] # "idle"

C20_ConcurrentRequestsIsolated ==
    /\ [](\A r \in Slots :
            /\ Done(r) => OwnRequest(r) /\ OwnProviderResponse(r)
            /\ \A q \in Slots : Concurrently(r, q) => requestId[r] # requestId[q])
    /\ [][/\ env' = env
          /\ \A r \in Slots : \A q \in Slots \ {r} :
                SlotState(r)' # SlotState(r) => SlotState(q)' = SlotState(q)]_vars

C20_Witness ==
    /\ pc["h1"] = "provider"
    /\ httpBody["h1"].json.prompt = Some("a cat astronaut")
    /\ Done("h2") /\ Answer("h2").success
    /\ Len(EventsOf("h2", "call")) = 1
    /\ Get(Answer("h2").metadata).prompt = "a"
    /\ Get(Answer("h2").metadata).width = Some(1920)
    /\ Get(Answer("h2").metadata).seed = Some([hi |-> 0, lo |-> 42, half |-> FALSE])
    /\ Get(Answer("h2").metadata).requestId = requestId["h2"]
    /\ requestId["h1"] # requestId["h2"]

-----------------------------------------------------------------------------
(* C21: a provider response that carries a block reason always yields a    *)
(* 'blocked' failure, even when it also contains an inline image; an image *)
(* is returned only from a response without a block reason, and then       *)
(* whatever the first candidate's finish reason is.                        *)

C21_BlockReasonFirst ==
    \A r \in Slots : \A response \in ReturnedIn(r) :
        Done(r) =>
            /\ Blocked(response) =>
                  /\ ~Answer(r).success
                  /\ Answer(r).imageUrl = None
                  /\ Includes(Get(Answer(r).error), "Request was blocked")
            /\ Answer(r).success => ~Blocked(response) /\ FirstImages(response) # {}
            /\ (~Blocked(response) /\ FirstImages(response) # {}) =>
                  /\ Answer(r).success
                  /\ IsSome(Answer(r).imageUrl)

C21_Witness ==
    \E r \in Slots :
        /\ Done(r)
        /\ ReturnedTo(r, ProviderResponse(Some("OTHER"), None,
                            <<Candidate(<<PngPart>>, Some("STOP"))>>))
        /\ ~Answer(r).success
        /\ Answer(r).imageUrl = None

-----------------------------------------------------------------------------
(* C22 as claimed: whenever the provider response has no block reason and  *)
(* no image payload but does contain text, the failure message states that *)
(* no image was returned and quotes the model's trimmed text feedback.     *)

HasText(response) == IsSome(ResponseText(response))

QuotesFeedback(r, response) ==
    /\ ~Answer(r).success
    /\ Includes(Get(Answer(r).error), "did not return an image")
    /\ Includes(Get(Answer(r).error),
                "\"" \o Trim(Get(ResponseText(response))) \o "\"")

C22_Original ==
    \A r \in Slots : \A response \in ReturnedIn(r) :
        (Done(r) /\ ~Blocked(response) /\ ~HasImage(response) /\ HasText(response)) =>
            QuotesFeedback(r, response)

(* C22 as amended: whenever the provider response has no block reason and  *)
(* no image payload, its first candidate has no finish reason or the       *)
(* finish reason STOP, and it contains text that is not only white space,  *)
(* the failure message states that no image was returned and quotes the    *)
(* model's trimmed text feedback.                                          *)
C22_TextFeedbackQuoted ==
    \A r \in Slots : \A response \in ReturnedIn(r) :
        (Done(r) /\ ~Blocked(response) /\ ~HasImage(response) /\ HasText(response)
            /\ FinishedNormally(response)
            /\ Trim(Get(ResponseText(response))) # "") =>
            QuotesFeedback(r, response)

C22_Witness ==
    \E r \in Slots :
        /\ Done(r)
        /\ ReturnedTo(r, ProviderResponse(None, None,
                <<Candidate(<<TextPart(" I cannot create that image. ")>>, Some("STOP"))>>))
        /\ Answer(r).error
             = Some("Failed to generate image: The AI model did not return an image. The model responded with text: \"I cannot create that image.\"")

-----------------------------------------------------------------------------
(* C23 as claimed: status 503 is returned only when the provider call      *)
(* itself failed; a failure raised while interpreting a delivered provider *)
(* response (blocked, stopped by a finish reason, or no image returned) is *)
(* answered with 400 or 500, never 503.                                    *)

C23_DeliveredResponseNever503 ==
    \A r \in Slots :
        /\ (Done(r) /\ Answer(r).status = 503) => RejectedIn(r) # {}
        /\ (Done(r) /\ ReturnedIn(r) # {} /\ ~Answer(r).success) =>
              Answer(r).status \in {400, 500}

-----------------------------------------------------------------------------
(* C24.  The awaits of the handler, where it is suspended.                 *)

Awaiting(r) == pc[r] \in {"json", "provider"}

NoResponseYet(r) == ~HasEvent(r, "response")

(* C24 as claimed: the provider call is the handler's only suspension      *)
(* point, and while it has neither returned nor thrown no response is      *)
(* emitted.                                                                *)
C24_Original ==
    \A r \in Slots :
        /\ Awaiting(r) => pc[r] = "provider"
        /\ pc[r] = "provider" => NoResponseYet(r)

(* C24 as amended: the handler is suspended at two awaits, the reading of  *)
(* the request body and the provider call, and it has no timeout           *)
(* transition: while the provider call has neither returned nor thrown no  *)
(* response is emitted, and the only steps that end the wait are the       *)
(* provider's return and the provider's throw, so a provider that never    *)
(* answers leaves the request pending forever.                             *)
C24_NoTimeoutAtProvider ==
    /\ [](\A r \in Slots :
            pc[r] = "provider" => NoResponseYet(r) /\ IsSome(pending[r]))
    /\ [][\A r \in Slots :
            (pc[r] = "provider" /\ pc'[r] # "provider") =>
                /\ pc'[r] \in {"resolved", "rejected"}
                /\ log'[r][Len(log'[r])].ev \in {"returned", "rejected"}
                /\ Len(log'[r]) = Len(log[r]) + 1]_vars

C24_Witness ==
    \E r \in Slots :
        /\ pc[r] = "provider"
        /\ IsSome(pending[r])
        /\ NoResponseYet(r)
        /\ HasEvent(r, "call")

-----------------------------------------------------------------------------
(* ProtectedRoute under AuthProvider.  A state update commits a new render *)
(* at once; a passive effect whose dependencies changed runs afterwards,   *)
(* as a step of its own.                                                   *)

Uids == {"ada", "bob"}

\* A Firebase user, as far as the guard looks at it.
User(uid, emailVerified) == [uid |-> uid, emailVerified |-> emailVerified]

Users == {User(u, v) : u \in Uids, v \in BOOLEAN}

\* Faulty variant: whatever is not the spinner shows the children.
ProtectedRoute_NoFinalCheck(g) ==
    IF g.loading \/ g.isChecking THEN "spinner" ELSE "children"

\* What ProtectedRoute returns for the state and props it is rendered with.
ProtectedRoute(g) ==
    IF g.loading \/ g.isChecking
    THEN "spinner"
    ELSE IF IsSome(g.currentUser)
            /\ (~g.requireEmailVerification
                    \/ Get(g.currentUser).emailVerified)
         THEN "children"
         ELSE "nothing"

\* AuthProvider renders its children, here the ProtectedRoute, only once
\* loading is false.
AuthProvider(g) ==
    [g EXCEPT !.view = IF g.loading THEN "nothing" ELSE ProtectedRoute(g)]

\* The onAuthStateChanged callback: it sets currentUser and ends loading;
\* the tree renders again, and ProtectedRoute's effect is due when it has
\* just been mounted or one of its dependencies changed.
OnAuthState(g, user) ==
    AuthProvider([g EXCEPT !.currentUser = user,
                           !.loading = FALSE,
                           !.effect = \/ g.effect
                                      \/ g.loading
                                      \/ user # g.currentUser])

\* Firebase reports the signed-in user, or null: at start-up, after a login,
\* and when the session ends elsewhere.
AuthStateChanged(user) ==
    /\ guard' = OnAuthState(guard, user)
    /\ UNCHANGED <<env, pc, httpBody, requestBody, pending, log, requestId,
                   probe, chat, login, hook>>

\* logout() of the context, up to its await: signOut ends the session and
\* Firebase reports null to the callback.
Logout ==
    /\ IsSome(guard.currentUser)
    /\ ~guard.signingOut
    /\ guard' = [OnAuthState(guard, None) EXCEPT !.signingOut = TRUE]
    /\ UNCHANGED <<env, pc, httpBody, requestBody, pending, log, requestId,
                   probe, chat, login, hook>>

\* logout() after its await: router.push('/').
LoggedOut ==
    /\ guard.signingOut
    /\ guard' = [guard EXCEPT !.signingOut = FALSE, !.path = "/"]
    /\ UNCHANGED <<env, pc, httpBody, requestBody, pending, log, requestId,
                   probe, chat, login, hook>>

\* reload(currentUser) on the verify-email page: the user object the context
\* holds is updated in place, so nothing renders again and no effect runs.
EmailVerified ==
    /\ IsSome(guard.currentUser)
    /\ ~Get(guard.currentUser).emailVerified
    /\ guard' = [guard EXCEPT !.currentUser =
                    Some(User(Get(guard.currentUser).uid, TRUE))]
    /\ UNCHANGED <<env, pc, httpBody, requestBody, pending, log, requestId,
                   probe, chat, login, hook>>

\* ProtectedRoute's effect: redirect, or end the check and render again.
RunEffect ==
    /\ guard.effect
    /\ guard' =
         IF guard.loading
         THEN [guard EXCEPT !.effect = FALSE]
         ELSE IF ~IsSome(guard.currentUser)
         THEN [guard EXCEPT !.effect = FALSE, !.pushed = Some("/login"),
                            !.path = "/login"]
         ELSE IF guard.requireEmailVerification
                 /\ ~Get(guard.currentUser).emailVerified
         THEN [guard EXCEPT !.effect = FALSE,
                            !.pushed = Some("/verify-email"),
                            !.path = "/verify-email"]
         ELSE AuthProvider([guard EXCEPT !.effect = FALSE,
                                         !.isChecking = FALSE])
    /\ UNCHANGED <<env, pc, httpBody, requestBody, pending, log, requestId,
                   probe, chat, login, hook>>

\* The server at rest while a browser component is looked at on its own.
ServerIdle ==
    /\ env = [apiKey |-> Some("AIza-key")]
    /\ pc = [r \in Slots |-> "idle"]
    /\ httpBody = [r \in Slots |-> UnparsedBody("")]
    /\ requestBody = [r \in Slots |-> EmptyObject]
    /\ pending = [r \in Slots |-> None]
    /\ log = [r \in Slots |-> <<>>]
    /\ requestId = [r \in Slots |-> ""]
    /\ probe = None

\* A browser component looked at on its own.
ClientInit == ServerIdle /\ ClientIdle

GuardInit ==
    /\ ServerIdle
    /\ guard \in {GuardStart(require) : require \in BOOLEAN}
    /\ chat = ChatStart
    /\ login = LoginStart
    /\ hook = HookStart

GuardNext ==
    \/ \E user \in {None} \cup {Some(u) : u \in Users} :
            AuthStateChanged(user)
    \/ Logout
    \/ LoggedOut
    \/ EmailVerified
    \/ RunEffect

GuardSpec == GuardInit /\ [][GuardNext]_vars

-----------------------------------------------------------------------------
\* C25: ProtectedRoute shows the protected children only while auth loading
\* is false, a user is signed in, and that user's email is verified or
\* verification is not required; so they are gone as soon as the user has
\* logged out.  Once its effect has run, a visitor without a user has been
\* sent to /login and one with an unverified email to /verify-email.
C25_GuardedChildren ==
    /\ guard.view = "children" =>
            /\ ~guard.loading
            /\ IsSome(guard.currentUser)
            /\ \/ ~guard.requireEmailVerification
               \/ Get(guard.currentUser).emailVerified
    /\ (~guard.loading /\ ~guard.effect) =>
            /\ ~IsSome(guard.currentUser) => guard.pushed = Some("/login")
            /\ (/\ IsSome(guard.currentUser)
                /\ guard.requireEmailVerification
                /\ ~Get(guard.currentUser).emailVerified)
                    => guard.pushed = Some("/verify-email")

\* A user was let in (the check has ended) and has since logged out: the
\* children are gone and the visitor has been sent to /login.
C25_Witness ==
    /\ ~guard.loading
    /\ ~guard.isChecking
    /\ ~IsSome(guard.currentUser)
    /\ ~guard.effect
    /\ guard.view = "nothing"
    /\ guard.pushed = Some("/login")

-----------------------------------------------------------------------------
(* The templates page and the Chat component.  Message ids are            *)
(* Date.now().toString(): here the position at which a message is          *)
(* appended, which grows like the clock does.                              *)

MaxSubmits == 2
MaxUploads == 1
MaxTemplates == 1

\* String.prototype.toLowerCase
RECURSIVE toLowerCase(_)
toLowerCase(s) ==
    LET upper == "ABCDEFGHIJKLMNOPQRSTUVWXYZ"
        lower == "abcdefghijklmnopqrstuvwxyz"
        c == SubSeq(s, 1, 1)
        hits == {i \in 1..Len(upper) : SubSeq(upper, i, i) = c}
    IN  IF Len(s) = 0 THEN ""
        ELSE (IF hits = {} THEN c
              ELSE SubSeq(lower, CHOOSE i \in hits : TRUE, CHOOSE i \in hits : TRUE))
             \o toLowerCase(SubSeq(s, 2, Len(s)))

RECURSIVE DropLeadingSpace(_)
DropLeadingSpace(s) ==
    IF Len(s) > 0 /\ IsSpace(SubSeq(s, 1, 1))
    THEN DropLeadingSpace(SubSeq(s, 2, Len(s)))
    ELSE s

\* text.replace(/^\/generate\s*/i, '')
StripCommand(text) ==
    IF StartsWith(toLowerCase(text), "/generate")
    THEN DropLeadingSpace(SubSeq(text, Len("/generate") + 1, Len(text)))
    ELSE text

\* The prompt both handlers derive from what the user wrote.
DerivedPrompt(text) ==
    With(Trim(StripCommand(text)),
         LAMBDA prompt : IF prompt = "" THEN "A beautiful landscape" ELSE prompt)

\* handleSubmit's test for an image generation command
isImageGenCommand(currentInput) ==
    With(toLowerCase(currentInput),
         LAMBDA lower : StartsWith(lower, "/generate")
                            \/ Includes(lower, "generate image"))

\* handleRetry's test for an image generation command
RetryIsImageGen(content) == StartsWith(toLowerCase(content), "/generate")

\* The ratios the two selectors of the chat offer.
ChatRatioOptions == {"1:1", "16:9", "9:16", "4:3", "3:4"}

\* The ratios the template form offers.
aspectRatioOptions == {"1:1", "16:9", "9:16", "4:3", "3:2"}

\* A saved template, as far as the chat uses it.
Template(name, aspectRatio) ==
    [name |-> name, options |-> [aspectRatio |-> aspectRatio]]

Templates == {Template("Bold " \o a, a) : a \in aspectRatioOptions}

\* What the user can type, and the files the user can attach.
Inputs == {"", " ", "hello", "/Generate  a cat", "generate image of a cat"}
Files == {"photo.png"}

\* FileReader.readAsDataURL
fileToBase64(file) == "data:image/png;base64,dXNlcg=="

\* JSON.stringify({...params, userImage}) as the route parses it
RequestBody(params, userImages) ==
    JsonObject(Some(params.prompt), Some(params.aspectRatio), None,
               IF Len(userImages) > 0 THEN Some(fileToBase64(userImages[1]))
               ELSE None,
               Some(params.cacheEnabled))

\* The answers POST /api/image can give to the body, and a fetch that fails.
ImageApi(body) ==
    IF SchemaIssues(body) # <<>>
    THEN {ValidationResponse(SchemaIssues(body))}
    ELSE {SuccessResponse(body, DataUri(Get(PngPart.inlineData)),
                          CHOOSE id \in SerialUuids : TRUE),
          CatchResponse(Thrown("fetch failed"), body,
                        CHOOSE id \in SerialUuids : TRUE)}

NetworkError == "Failed to fetch"

\* The awaited call of a handler.
Call(by, target, fn, arg, body, userImages, templateName) ==
    [by |-> by, target |-> target, fn |-> fn, arg |-> arg, body |-> body,
     userImages |-> userImages, templateName |-> templateName]

ImageCall(by, target, c, prompt, userImages) ==
    Call(by, target, "generateImage", prompt,
         RequestBody([prompt |-> prompt,
                      aspectRatio |-> c.imageGenOptions.aspectRatio,
                      cacheEnabled |-> c.imageGenOptions.cacheEnabled],
                     userImages),
         userImages,
         IF IsSome(c.currentTemplate) THEN Some(Get(c.currentTemplate).name)
         ELSE None)

ChatCall(by, target, userMessage) ==
    Call(by, target, "mockChatApiCall", userMessage, EmptyObject, <<>>, None)

\* generateImage: the message it returns for what the fetch gave.
GeneratedMessage(id, call, response) ==
    AssistantMessage(id,
        "Image Generated Successfully"
            \o (IF IsSome(call.templateName)
                THEN " using \"" \o Get(call.templateName) \o "\" template"
                ELSE "")
            \o " Prompt: \"" \o call.arg \o "\""
            \o (IF Len(call.userImages) > 0
                THEN " Used reference image: " \o call.userImages[1] ELSE ""),
        <<Get(response.imageUrl)>>, None, call.templateName)

FailedMessage(id, message) ==
    AssistantMessage(id,
        "Image Generation Failed. I couldn't generate the image due to an error: "
            \o message,
        <<>>, Some(message), None)

generateImage(id, call) ==
    {IF response.status = 200 /\ response.success
     THEN GeneratedMessage(id, call, response)
     ELSE FailedMessage(id, Get(response.error)) : response \in ImageApi(call.body)}
    \cup {FailedMessage(id, NetworkError)}

mockChatApiCall(id, call) ==
    {AssistantMessage(id, opening \o "\"" \o call.arg \o "\"", <<>>, None, None) :
        opening \in {"I understand you're asking about: ", "Thanks for your message: "}}

\* What the awaited call resolves to.
Replies(id, call) ==
    IF call.fn = "generateImage" THEN generateImage(id, call)
    ELSE mockChatApiCall(id, call)

OnlyChat ==
    UNCHANGED <<env, pc, httpBody, requestBody, pending, log, requestId, probe,
                guard, login, hook>>

\* Templates page: a ratio is chosen in the form and the template is saved.
handleSaveTemplate(aspectRatio) ==
    /\ chat.page = "templates"
    /\ Cardinality(chat.store) < MaxTemplates
    /\ chat' = [chat EXCEPT !.store = @ \cup {Template("Bold " \o aspectRatio, aspectRatio)}]
    /\ OnlyChat

\* Templates page: "use" stores the template for the chat and goes there.
handleUseTemplate(template) ==
    /\ chat.page = "templates"
    /\ template \in chat.store
    /\ chat' = [chat EXCEPT !.selectedTemplate = Some(template), !.page = "loading"]
    /\ OnlyChat

\* The chat page is opened from elsewhere.
OpenChat ==
    /\ chat.page = "templates"
    /\ chat' = [chat EXCEPT !.page = "loading"]
    /\ OnlyChat

SetAspectRatio(c, aspectRatio) ==
    [c EXCEPT !.imageGenOptions = [@ EXCEPT !.aspectRatio = aspectRatio]]

\* The mount effect of the chat: a template handed over is applied and
\* announced, and the saved templates are loaded.
Mount ==
    /\ chat.page = "loading"
    /\ chat' =
         [(IF IsSome(chat.selectedTemplate)
           THEN [SetAspectRatio(chat, Get(chat.selectedTemplate).options.aspectRatio)
                    EXCEPT !.currentTemplate = chat.selectedTemplate,
                           !.messages = Append(@,
                                AssistantMessage(Len(@) + 1,
                                    "Template \"" \o Get(chat.selectedTemplate).name
                                        \o "\" Applied Successfully!",
                                    <<>>, None,
                                    Some(Get(chat.selectedTemplate).name))),
                           !.selectedTemplate = None]
           ELSE chat)
          EXCEPT !.page = "chat", !.savedTemplates = chat.store]
    /\ OnlyChat

\* One of the ratio selectors changes.
SelectRatio(aspectRatio) ==
    /\ chat.page = "chat"
    /\ chat' = SetAspectRatio(chat, aspectRatio)
    /\ OnlyChat

handleTemplateSelect(template) ==
    /\ chat.page = "chat"
    /\ template \in chat.savedTemplates
    /\ chat' = [SetAspectRatio(chat, template.options.aspectRatio)
                    EXCEPT !.currentTemplate = Some(template)]
    /\ OnlyChat

\* The user types.
SetInput(text) ==
    /\ chat.page = "chat"
    /\ chat' = [chat EXCEPT !.input = text]
    /\ OnlyChat

handleImageUpload(file) ==
    /\ chat.page = "chat"
    /\ Len(chat.uploadedImages) < MaxUploads
    /\ chat' = [chat EXCEPT !.uploadedImages = Append(@, file)]
    /\ OnlyChat

removeUploadedImage(index) ==
    /\ chat.page = "chat"
    /\ index \in DOMAIN chat.uploadedImages
    /\ chat' = [chat EXCEPT !.uploadedImages =
                    SubSeq(@, 1, index - 1) \o SubSeq(@, index + 1, Len(@))]
    /\ OnlyChat

UserMessages(c) == {i \in DOMAIN c.messages : c.messages[i].role = "user"}

\* The call handleSubmit makes for what the user sent.
SubmitCall(c, currentInput) ==
    IF isImageGenCommand(currentInput)
    THEN ImageCall("submit", 0, c, DerivedPrompt(currentInput), c.uploadedImages)
    ELSE ChatCall("submit", 0,
                  IF currentInput # "" THEN currentInput
                  ELSE "Analyzing uploaded images...")

Accepted(c, currentInput) ==
    [c EXCEPT
        !.messages = Append(@,
            Message(Len(@) + 1, "user",
                    IF currentInput # "" THEN currentInput
                    ELSE "Analyzed " \o NumberToString(Len(c.uploadedImages))
                            \o " image(s)",
                    c.uploadedImages, <<>>, None, None,
                    Some([fn |-> SubmitCall(c, currentInput).fn,
                          arg |-> SubmitCall(c, currentInput).arg]))),
        !.input = "",
        !.uploadedImages = <<>>,
        !.isLoading = TRUE,
        !.op = Some(SubmitCall(c, currentInput))]

\* Faulty variant: a submit is accepted while a request is in progress.
handleSubmit_WhileLoading ==
    /\ chat.page = "chat"
    /\ Cardinality(UserMessages(chat)) < MaxSubmits
    /\ chat' = IF Trim(chat.input) = "" /\ chat.uploadedImages = <<>>
               THEN chat
               ELSE Accepted(chat, Trim(chat.input))
    /\ OnlyChat

\* handleSubmit up to its await.
handleSubmit ==
    /\ chat.page = "chat"
    /\ Cardinality(UserMessages(chat)) < MaxSubmits
    /\ chat' = IF \/ (Trim(chat.input) = "" /\ chat.uploadedImages = <<>>)
                  \/ chat.isLoading
               THEN chat
               ELSE Accepted(chat, Trim(chat.input))
    /\ OnlyChat

\* handleSubmit after its await: the assistant message is appended and the
\* loading ends.
SubmitSettles ==
    /\ IsSome(chat.op)
    /\ Get(chat.op).by = "submit"
    /\ \E message \in Replies(Len(chat.messages) + 1, Get(chat.op)) :
            chat' = [chat EXCEPT !.messages = Append(@, message),
                                 !.isLoading = FALSE,
                                 !.op = None]
    /\ OnlyChat

\* handleRetry up to its await; the button is disabled while isLoading.
handleRetry(messageId) ==
    /\ chat.page = "chat"
    /\ ~chat.isLoading
    /\ \E messageIndex \in DOMAIN chat.messages :
        /\ chat.messages[messageIndex].id = messageId
        /\ chat.messages[messageIndex].role = "assistant"
        /\ \A j \in 1..(messageIndex - 1) : chat.messages[j].id # messageId
        /\ chat' =
             IF messageIndex = 1 \/ chat.messages[messageIndex - 1].role # "user"
             THEN chat
             ELSE LET userMessage == chat.messages[messageIndex - 1]
                  IN  [chat EXCEPT
                         !.isLoading = TRUE,
                         !.op = Some(
                            IF RetryIsImageGen(userMessage.content)
                            THEN ImageCall("retry", messageId, chat,
                                           DerivedPrompt(userMessage.content),
                                           userMessage.userImages)
                            ELSE ChatCall("retry", messageId, userMessage.content))]
    /\ OnlyChat

\* handleRetry after its await: the message with the id is replaced.
RetrySettles ==
    /\ IsSome(chat.op)
    /\ Get(chat.op).by = "retry"
    /\ \E message \in Replies(Len(chat.messages) + 1, Get(chat.op)) :
            chat' = [chat EXCEPT
                        !.messages = [i \in DOMAIN @ |->
                            IF @[i].id = Get(chat.op).target
                            THEN [message EXCEPT !.id = Get(chat.op).target]
                            ELSE @[i]],
                        !.isLoading = FALSE,
                        !.op = None]
    /\ OnlyChat

\* A conversation: what the user types and attaches, submits and retries.
ChatNext ==
    \/ OpenChat
    \/ Mount
    \/ \E aspectRatio \in ChatRatioOptions : SelectRatio(aspectRatio)
    \/ \E text \in Inputs : SetInput(text)
    \/ \E file \in Files : handleImageUpload(file)
    \/ \E index \in 1..MaxUploads : removeUploadedImage(index)
    \/ handleSubmit
    \/ SubmitSettles
    \/ \E messageId \in 1..(2 * MaxSubmits + 2) : handleRetry(messageId)
    \/ RetrySettles

ChatSpec == ClientInit /\ [][ChatNext]_vars

\* Templates on their way into generation requests: they are saved on the
\* templates page, handed to the chat or picked in it, and the user asks for
\* an image.
TemplateInputs == {"/generate a cat", "/GENERATE "}

TemplateNext ==
    \/ \E aspectRatio \in aspectRatioOptions : handleSaveTemplate(aspectRatio)
    \/ \E template \in Templates : handleUseTemplate(template)
    \/ OpenChat
    \/ Mount
    \/ \E aspectRatio \in ChatRatioOptions : SelectRatio(aspectRatio)
    \/ \E template \in Templates : handleTemplateSelect(template)
    \/ \E text \in TemplateInputs : SetInput(text)
    \/ handleSubmit
    \/ SubmitSettles

TemplateSpec == ClientInit /\ [][TemplateNext]_vars

-----------------------------------------------------------------------------
\* C26 as claimed: every generation request the chat builds, from its own
\* selectors or from a saved template applied in it, carries an aspect ratio
\* the schema of POST /api/image accepts, so no request is rejected for its
\* aspect ratio.
C26_UiRatiosAccepted ==
    (IsSome(chat.op) /\ Get(chat.op).fn = "generateImage") =>
        AspectRatioIssues(Get(chat.op).body.aspectRatio) = <<>>

-----------------------------------------------------------------------------
(* C27.  The conversation proper starts at the first user message; before  *)
(* it stand the greeting and the announcement of a template.               *)

FirstUserMessage(c) ==
    IF UserMessages(c) = {} THEN Len(c.messages) + 1
    ELSE CHOOSE i \in UserMessages(c) : \A j \in UserMessages(c) : i <= j

NothingToSend(c) == Trim(c.input) = "" /\ c.uploadedImages = <<>>

LastRole(c) == c.messages[Len(c.messages)].role

\* From the first user message on, user and assistant messages alternate;
\* the last message is a user message exactly while its submit is awaiting
\* the answer, and isLoading is true exactly while a call is awaited.
Alternating ==
    /\ \A i \in DOMAIN chat.messages :
            i >= FirstUserMessage(chat) =>
                chat.messages[i].role =
                    IF (i - FirstUserMessage(chat)) % 2 = 0 THEN "user"
                    ELSE "assistant"
    /\ LastRole(chat) = "user" <=>
            (IsSome(chat.op) /\ Get(chat.op).by = "submit")
    /\ chat.isLoading <=> IsSome(chat.op)

\* A step of the open chat appends at most one message.  It appends a user
\* message only when nothing is loading and there is something to send, and
\* loading begins with it; while a submit is loading the messages stay as
\* they are until the assistant message is appended, and loading ends in
\* that very step.
SubmitSteps ==
    chat.page = "chat" =>
        /\ Len(chat'.messages) \in {Len(chat.messages), Len(chat.messages) + 1}
        /\ SubSeq(chat'.messages, 1, Len(chat.messages)) = chat.messages
                \/ (IsSome(chat.op) /\ Get(chat.op).by = "retry")
        /\ (Len(chat'.messages) > Len(chat.messages) /\ LastRole(chat') = "user") =>
                /\ ~chat.isLoading
                /\ ~NothingToSend(chat)
                /\ chat'.isLoading
        /\ (Len(chat'.messages) > Len(chat.messages) /\ LastRole(chat') = "assistant") =>
                /\ chat.isLoading
                /\ LastRole(chat) = "user"
                /\ ~chat'.isLoading
        /\ (chat.isLoading /\ Get(chat.op).by = "submit") =>
                IF chat'.isLoading THEN chat'.messages = chat.messages
                ELSE /\ Len(chat'.messages) = Len(chat.messages) + 1
                     /\ LastRole(chat') = "assistant"

\* C27: in the Chat component a submit is ignored while isLoading is true or
\* when there is neither text nor an uploaded image; each accepted submit
\* appends exactly one user message and then exactly one assistant message,
\* a result or an error message; and isLoading is true from the accept until
\* that assistant message is appended and false afterwards, whether the
\* request succeeded or failed.
C27_SubmitExchanges == []Alternating /\ [][SubmitSteps]_vars

\* Two submits were accepted and answered, one with an image and one with an
\* error message, and nothing is loading.
C27_Witness ==
    /\ Cardinality(UserMessages(chat)) = MaxSubmits
    /\ ~chat.isLoading
    /\ LastRole(chat) = "assistant"
    /\ \E i \in DOMAIN chat.messages : IsSome(chat.messages[i].error)
    /\ \E i \in DOMAIN chat.messages : chat.messages[i].images # <<>>

-----------------------------------------------------------------------------
\* C28 as claimed: a retry regenerates the assistant message by the path
\* that produced it.  If the submit of the user message before it called
\* generateImage, handleRetry calls generateImage with the same derived
\* prompt, and otherwise both take the chat-reply path.
C28_RetrySamePath ==
    (IsSome(chat.op) /\ Get(chat.op).by = "retry") =>
        \A i \in DOMAIN chat.messages :
            (i > 1 /\ chat.messages[i].id = Get(chat.op).target) =>
                /\ IsSome(chat.messages[i - 1].handled)
                /\ Get(chat.op).fn = Get(chat.messages[i - 1].handled).fn
                /\ Get(chat.op).fn = "generateImage" =>
                        Get(chat.op).arg = Get(chat.messages[i - 1].handled).arg

-----------------------------------------------------------------------------
(* The login page.                                                         *)

VerifyEmailMessage ==
    "Please verify your email before logging in. Check your inbox for the verification link."

\* /\S+@\S+\.\S+/.test(email)
EmailLooksValid(email) ==
    \E i \in 2..Len(email) : \E j \in (i + 2)..(Len(email) - 1) :
        /\ SubSeq(email, i, i) = "@"
        /\ SubSeq(email, j, j) = "."
        /\ \A k \in (i - 1)..(j + 1) : ~IsSpace(SubSeq(email, k, k))

\* validateForm: the errors it sets
FormErrors(formData) ==
    [email |-> IF formData.email = "" THEN Some("Email is required")
               ELSE IF ~EmailLooksValid(formData.email) THEN Some("Email is invalid")
               ELSE None,
     password |-> IF formData.password = "" THEN Some("Password is required")
                  ELSE None,
     general |-> None]

validateForm(formData) == FormErrors(formData) = NoErrors

\* What signInWithEmailAndPassword and signInWithPopup settle with.
SignedIn(emailVerified) ==
    [resolved |-> TRUE, emailVerified |-> emailVerified, code |-> "", message |-> ""]
SignInError(code, message) ==
    [resolved |-> FALSE, emailVerified |-> FALSE, code |-> code, message |-> message]

SignInOutcomes ==
    {SignedIn(v) : v \in BOOLEAN}
    \cup {SignInError(code, "Firebase: Error (" \o code \o ").") :
            code \in {"auth/user-not-found", "auth/wrong-password", "auth/invalid-email",
                      "auth/user-disabled", "auth/too-many-requests",
                      "auth/network-request-failed"}}
    \cup {SignInError("", "")}

\* The message handleEmailLogin shows for a sign-in error.
LoginErrorMessage(error) ==
    CASE error.code = "auth/user-not-found" -> "No account found with this email"
      [] error.code = "auth/wrong-password" -> "Incorrect password"
      [] error.code = "auth/invalid-email" -> "Invalid email address"
      [] error.code = "auth/user-disabled" -> "Account has been disabled"
      [] error.code = "auth/too-many-requests" ->
            "Too many failed attempts. Please try again later"
      [] OTHER -> IF error.message # "" THEN error.message ELSE "Failed to log in"

Emails == {"", "ada", "ada@example.com"}
Passwords == {"", "hunter2"}

OnlyLogin ==
    UNCHANGED <<env, pc, httpBody, requestBody, pending, log, requestId, probe,
                guard, chat, hook>>

handleInputChange(name, value) ==
    /\ login.path = "/login"
    /\ login' = [login EXCEPT
                    !.formData = IF name = "email" THEN [@ EXCEPT !.email = value]
                                 ELSE [@ EXCEPT !.password = value],
                    !.errors = IF name = "email" /\ IsSome(@.email) /\ Get(@.email) # ""
                               THEN [@ EXCEPT !.email = Some("")]
                               ELSE IF name = "password" /\ IsSome(@.password)
                                       /\ Get(@.password) # ""
                               THEN [@ EXCEPT !.password = Some("")]
                               ELSE @]
    /\ OnlyLogin

\* handleEmailLogin up to its await; the submit button is disabled while
\* loading.
handleEmailLogin ==
    /\ login.path = "/login"
    /\ ~login.loading
    /\ login' = IF ~validateForm(login.formData)
                THEN [login EXCEPT !.errors = FormErrors(login.formData)]
                ELSE [login EXCEPT !.errors = NoErrors,
                                   !.loading = TRUE,
                                   !.op = Some([fn |-> "email", settled |-> None])]
    /\ OnlyLogin

\* handleGoogleLogin up to its await
handleGoogleLogin ==
    /\ login.path = "/login"
    /\ ~login.loading
    /\ login' = [login EXCEPT !.loading = TRUE,
                              !.op = Some([fn |-> "google", settled |-> None])]
    /\ OnlyLogin

\* Firebase settles the sign-in.
SignInSettles(outcome) ==
    /\ IsSome(login.op)
    /\ ~IsSome(Get(login.op).settled)
    /\ login' = [login EXCEPT !.op = Some([Get(@) EXCEPT !.settled = Some(outcome)])]
    /\ OnlyLogin

\* Faulty variant: the verification of the email is not looked at.
EmailLoginResumes_Unchecked ==
    /\ IsSome(login.op)
    /\ Get(login.op).fn = "email"
    /\ IsSome(Get(login.op).settled)
    /\ login' =
         LET outcome == Get(Get(login.op).settled)
         IN  IF outcome.resolved
             THEN [login EXCEPT !.path = "/", !.loading = FALSE, !.op = None]
             ELSE [login EXCEPT
                     !.errors = [NoErrors EXCEPT
                                    !.general = Some(LoginErrorMessage(outcome))],
                     !.loading = FALSE, !.op = None]
    /\ OnlyLogin

\* handleEmailLogin after its await
EmailLoginResumes ==
    /\ IsSome(login.op)
    /\ Get(login.op).fn = "email"
    /\ IsSome(Get(login.op).settled)
    /\ login' =
         LET outcome == Get(Get(login.op).settled)
         IN  IF outcome.resolved /\ ~outcome.emailVerified
             THEN [login EXCEPT
                     !.errors = [NoErrors EXCEPT !.general = Some(VerifyEmailMessage)],
                     !.loading = FALSE, !.op = None]
             ELSE IF outcome.resolved
             THEN [login EXCEPT !.path = "/", !.loading = FALSE, !.op = None]
             ELSE [login EXCEPT
                     !.errors = [NoErrors EXCEPT
                                    !.general = Some(LoginErrorMessage(outcome))],
                     !.loading = FALSE, !.op = None]
    /\ OnlyLogin

\* handleGoogleLogin after its await
GoogleLoginResumes ==
    /\ IsSome(login.op)
    /\ Get(login.op).fn = "google"
    /\ IsSome(Get(login.op).settled)
    /\ login' =
         LET outcome == Get(Get(login.op).settled)
         IN  IF outcome.resolved
             THEN [login EXCEPT !.path = "/", !.loading = FALSE, !.op = None]
             ELSE [login EXCEPT
                     !.errors = [NoErrors EXCEPT
                                    !.general = Some(IF outcome.message # ""
                                                     THEN outcome.message
                                                     ELSE "Failed to log in with Google")],
                     !.loading = FALSE, !.op = None]
    /\ OnlyLogin

LoginNext ==
    \/ \E value \in Emails : handleInputChange("email", value)
    \/ \E value \in Passwords : handleInputChange("password", value)
    \/ handleEmailLogin
    \/ handleGoogleLogin
    \/ \E outcome \in SignInOutcomes : SignInSettles(outcome)
    \/ EmailLoginResumes
    \/ GoogleLoginResumes

LoginSpec == ClientInit /\ [][LoginNext]_vars

-----------------------------------------------------------------------------
\* The email sign-in has settled and its handler is about to resume.
EmailSignInSettled ==
    /\ IsSome(login.op)
    /\ Get(login.op).fn = "email"
    /\ IsSome(Get(login.op).settled)

\* C29: on the login page an email/password sign-in that succeeds for an
\* account whose email is not verified never navigates to '/': it sets the
\* general 'verify your email' error instead.  Whatever the sign-in settled
\* with (verified, unverified or an error), loading is false once the
\* handler has run on.
C29_UnverifiedStaysOut ==
    [][(EmailSignInSettled /\ login'.op # login.op) =>
            /\ ~login'.loading
            /\ login'.op = None
            /\ (/\ Get(Get(login.op).settled).resolved
                /\ ~Get(Get(login.op).settled).emailVerified) =>
                    /\ login'.path = "/login"
                    /\ login'.errors.general = Some(VerifyEmailMessage)
            /\ (/\ Get(Get(login.op).settled).resolved
                /\ Get(Get(login.op).settled).emailVerified) =>
                    login'.path = "/"]_vars

\* An unverified account has signed in: the page is still the login page,
\* it shows the verification message and nothing is loading.
C29_Witness ==
    /\ login.path = "/login"
    /\ login.errors.general = Some(VerifyEmailMessage)
    /\ ~login.loading
    /\ login.op = None

-----------------------------------------------------------------------------
(* The useImageGeneration hook.  generateImage can be called again while   *)
(* an earlier call is awaiting its fetch or the parsing of its response.   *)

HookPrompts == {"a cat", "a dog"}

\* What response.json() gives: the parsed body of the answer.
ApiData(success, imageUrl, error) ==
    [success |-> success, imageUrl |-> imageUrl, error |-> error]

HookResponses ==
    {ApiData(TRUE, "data:image/png;base64,iVBORw0KGgoAAAANSUhEUg", ""),
     ApiData(FALSE, "", "Failed to generate image: fetch failed"),
     ApiData(FALSE, "", "")}

InFlight(c) == hook.calls[c].at # "none"

OnlyHook ==
    UNCHANGED <<env, pc, httpBody, requestBody, pending, log, requestId, probe,
                guard, chat, login>>

\* The catch and finally blocks of generateImage.
Failed(h, c, message) ==
    [h EXCEPT !.error = Some(message),
              !.loading = FALSE,
              !.calls[c] = [at |-> "none", params |-> "", response |-> None]]

\* generateImage up to `await fetch`
HookGenerateImage(c, prompt) ==
    /\ ~InFlight(c)
    /\ hook' = [hook EXCEPT !.loading = TRUE,
                            !.error = None,
                            !.generatedImage = None,
                            !.calls[c] = [at |-> "fetch", params |-> prompt,
                                          response |-> None]]
    /\ OnlyHook

\* The fetch resolves; the call goes on to `await response.json()`.
Fetched(c, data) ==
    /\ hook.calls[c].at = "fetch"
    /\ hook' = [hook EXCEPT !.calls[c] = [@ EXCEPT !.at = "json",
                                                   !.response = Some(data)]]
    /\ OnlyHook

\* The fetch rejects.
FetchFails(c) ==
    /\ hook.calls[c].at = "fetch"
    /\ hook' = Failed(hook, c, "Failed to fetch")
    /\ OnlyHook

\* response.json() resolves; lines 63-75.
Parsed(c) ==
    /\ hook.calls[c].at = "json"
    /\ hook' =
         LET data == Get(hook.calls[c].response)
         IN  IF ~data.success
             THEN Failed(hook, c, IF data.error # "" THEN data.error
                                  ELSE "Failed to generate image")
             ELSE [hook EXCEPT
                     !.generatedImage = Some([imageUrl |-> data.imageUrl,
                                              prompt |-> hook.calls[c].params]),
                     !.loading = FALSE,
                     !.calls[c] = [at |-> "none", params |-> "", response |-> None]]
    /\ OnlyHook

\* response.json() rejects: the body is not JSON.
ParseFails(c) ==
    /\ hook.calls[c].at = "json"
    /\ hook' = Failed(hook, c, "Unexpected token '<', \"<!DOCTYPE \"... is not valid JSON")
    /\ OnlyHook

clearError ==
    /\ hook' = [hook EXCEPT !.error = None]
    /\ OnlyHook

clearImage ==
    /\ hook' = [hook EXCEPT !.generatedImage = None]
    /\ OnlyHook

HookNext ==
    \/ clearError
    \/ clearImage
    \/ \E c \in CallIds :
        \/ \E prompt \in HookPrompts : HookGenerateImage(c, prompt)
        \/ \E data \in HookResponses : Fetched(c, data)
        \/ FetchFails(c)
        \/ Parsed(c)
        \/ ParseFails(c)

HookSpec == ClientInit /\ [][HookNext]_vars

-----------------------------------------------------------------------------
\* C30 as claimed: in the useImageGeneration hook, however overlapping
\* generateImage calls interleave, loading is true in every state in which
\* at least one call is still in flight, and it is false only when none is.
C30_LoadingWhileInFlight ==
    hook.loading <=> \E c \in CallIds : InFlight(c)

====
